---- MODULE Spec2Model ----
(***************************************************************************)
(* ThreadSafeMsgQueue: the message entity and its ordering (Msg.h), and    *)
(* the bounded, mutex-protected priority queue with its statistics         *)
(* (MsgQueue.h), as a state machine of client threads calling the queue.   *)
(*                                                                         *)
(* A message is a heap object reached through shared handles (BaseMsgPtr); *)
(* handle 0 is the null pointer.  Every queue operation is cut at the      *)
(* points where another thread can see its effect: the mutex acquisition   *)
(* and each access of an atomic statistics counter (the counters are read  *)
(* and reset without the mutex).                                           *)
(***************************************************************************)
EXTENDS Integers, Sequences, FiniteSets, TLC

\* ------------------------------------------------------------- bounds
MaxMsgs == 3        \* messages constructed in one run
MaxPriority == 1    \* priorities are 0..MaxPriority
MaxCapacity == 3    \* the queue is constructed with a capacity 1..MaxCapacity
MaxClock == 1       \* the system clock reads 0..MaxClock microseconds
MaxWait == 1        \* a measured wait lasts 0..MaxWait microseconds
MaxBatch == 3       \* longest vector handed to enqueue_batch
MaxCount == 2       \* largest max_count handed to dequeue_batch
MaxSubs == 2        \* subscriptions a router hands out in one run
MaxPublish == 2     \* messages published to a router in one run
MaxQueueSize == 2   \* a router's default_queue_size is 1..MaxQueueSize

\* The client threads: one producing, one consuming (testThreadSafety's
\* roles), and a second consumer for the scenarios with several waiters.
Producer == "producer"
Consumer == "consumer"
Consumers == {"consumer", "consumer2"}
AllThreads == {Producer} \cup Consumers
NoThread == "none"
Priorities == 0..MaxPriority
NullMsg == 0

VARIABLES
  global_msg_id_counter,  \* detail::getGlobalMsgIdCounter()
  msgs,                   \* the constructed messages, by handle
  msg_queue_,             \* the heap array of std::priority_queue
  max_size_,              \* capacity fixed at construction
  mtx_,                   \* NoThread when free, else the thread holding it
  stats_,                 \* the atomic statistics counters
  clock,                  \* the clock, in microseconds
  pc,                     \* each thread's position
  loc,                    \* each thread's local variables
  ret,                    \* each thread's last returned value
  accepted,               \* history: messages accepted, in lock order
  removed,                \* history: messages handed out, in removal order
  cleared,                \* history: clear() has run
  reset_done,             \* history: resetStatistics() has run
  peak_hist,              \* history: largest current_size since the last reset
  config_,                \* PubSubSystem: the configuration
  running_,               \* PubSubSystem: the router is Running
  should_stop_,           \* PubSubSystem: the workers are asked to leave
  next_subscription_id_,  \* PubSubSystem: the next subscription id
  subscribers_,           \* PubSubSystem: topic -> list of (id, callback)
  topic_queues_,          \* PubSubSystem: topic -> its queue object
  subscribers_mutex_,     \* NoThread when free, else the thread holding it
  topic_stats_,           \* PubSubSystem: topic -> TopicStatistics
  worker_threads_,        \* PubSubSystem: the worker threads spawned
  queues,                 \* the MsgQueue objects the router has created
  rpc,                    \* each router thread's position
  rloc,                   \* each router thread's local variables
  rret,                   \* each router thread's last returned value
  sent,                   \* history: the topic each message was published to
  published,              \* history: the messages a topic queue accepted
  subscribed,             \* history: the subscriptions made, by id
  unsubscribed,           \* history: the ids unsubscribe or clear removed
  dropped,                \* history: the messages accepted before the last clear()
  invoked                 \* history: the callback invocations, in order

\* The router and the threads that call it.
router == <<config_, running_, should_stop_, next_subscription_id_,
            subscribers_, topic_queues_, subscribers_mutex_, topic_stats_,
            worker_threads_, queues, rpc, rloc, rret, sent, published,
            subscribed, unsubscribed, dropped, invoked>>

vars == <<global_msg_id_counter, msgs, msg_queue_, max_size_, mtx_, stats_,
          clock, pc, loc, ret, accepted, removed, cleared, reset_done,
          peak_hist, router>>

\* ------------------------------------------------------------ messages

\* BaseMsg(int _priority): timestamp 0, msg_id_ from the global counter.
BaseMsg(_priority, _content, id) ==
  [priority |-> _priority, timestamp |-> 0, msg_id_ |-> id, content |-> _content]

\* BaseMsg::setTimestamp
setTimestamp(ms, m, _timestamp) == [ms EXCEPT ![m].timestamp = _timestamp]

OperatorLessReversed(a, b) ==
  IF a.priority # b.priority THEN a.priority > b.priority
  ELSE IF a.timestamp # b.timestamp THEN a.timestamp > b.timestamp
  ELSE a.msg_id_ > b.msg_id_

OperatorLessNewestId(a, b) ==
  IF a.priority # b.priority THEN a.priority < b.priority
  ELSE IF a.timestamp # b.timestamp THEN a.timestamp > b.timestamp
  ELSE a.msg_id_ < b.msg_id_

\* BaseMsg::operator<
OperatorLess(a, b) ==
  IF a.priority # b.priority THEN a.priority < b.priority
  ELSE IF a.timestamp # b.timestamp THEN a.timestamp > b.timestamp
  ELSE a.msg_id_ > b.msg_id_

\* BaseMsgPtrCompareLess: compares the pointed-to messages.
BaseMsgPtrCompareLess(ms, a, b) == OperatorLess(ms[a], ms[b])

\* ------------------------------------------------- std::priority_queue

Swap(s, i, j) == [s EXCEPT ![i] = s[j], ![j] = s[i]]

\* std::push_heap: the new last element climbs while its parent is less.
RECURSIVE SiftUp(_, _, _)
SiftUp(ms, s, i) ==
  IF i = 1 THEN s
  ELSE LET p == i \div 2 IN
       IF BaseMsgPtrCompareLess(ms, s[p], s[i])
       THEN SiftUp(ms, Swap(s, p, i), p)
       ELSE s

\* priority_queue::push: push_back, then push_heap.
Push(ms, s, m) == SiftUp(ms, Append(s, m), Len(s) + 1)

\* std::__adjust_heap, first half: the hole at the root sinks to a leaf,
\* each time taking the greater child.  Returns <<array, hole>>.
RECURSIVE SinkHole(_, _, _, _)
SinkHole(ms, s, hole, n) ==
  IF 2 * hole + 1 <= n
  THEN LET c == IF BaseMsgPtrCompareLess(ms, s[2 * hole + 1], s[2 * hole])
                THEN 2 * hole ELSE 2 * hole + 1
       IN SinkHole(ms, [s EXCEPT ![hole] = s[c]], c, n)
  ELSE IF 2 * hole = n
  THEN <<[s EXCEPT ![hole] = s[2 * hole]], 2 * hole>>
  ELSE <<s, hole>>

PopLast(ms, s) == SubSeq(s, 1, Len(s) - 1)

\* priority_queue::pop: pop_heap (the last element is saved, the root
\* sinks, the saved element is put in the hole and climbs), then pop_back.
Pop(ms, s) ==
  LET n == Len(s) - 1 IN
  IF n = 0 THEN <<>>
  ELSE LET value == s[Len(s)]
           sunk == SinkHole(ms, SubSeq(s, 1, n), 1, n)
       IN SiftUp(ms, [sunk[1] EXCEPT ![sunk[2]] = value], sunk[2])

\* priority_queue::top: the front of the heap array.
Top(s) == s[1]

\* MsgQueue::size
size == Len(msg_queue_)

\* MsgQueue::empty
empty == Len(msg_queue_) = 0

Range(s) == {s[i] : i \in 1..Len(s)}

Max(a, b) == IF a >= b THEN a ELSE b

\* ---------------------------------------------------------- the state

\* MsgQueue::Statistics, all counters 0.
Statistics == [total_enqueued |-> 0, total_dequeued |-> 0, current_size |-> 0,
               peak_size |-> 0, total_wait_time_us |-> 0, wait_count |-> 0]

\* A thread's locals outside any call.
NoLocals == [msg |-> NullMsg, messages |-> <<>>, enqueued_count |-> 0,
             current_size |-> 0, expected_peak |-> 0, infinite |-> FALSE,
             timed_out |-> FALSE, wait_time |-> 0,
             result |-> <<>>, snapshot |-> Statistics]

\* A returned value: the call, its boolean or its count, its messages
\* (those handed out by a dequeue; the arguments of a call that accepted
\* nothing) and, for getStatistics, its copy of the statistics.
NoReturn == [op |-> "none", ok |-> FALSE, n |-> 0, msgs |-> <<>>,
             stats |-> Statistics]

Return(_op, _ok, _n, _msgs) ==
  [op |-> _op, ok |-> _ok, n |-> _n, msgs |-> _msgs, stats |-> Statistics]

\* What the histories keep of a message: the handle, what it carried, and
\* the call that accepted it ("out" in the history of removals).
Entry(ms, m, how) ==
  [msg |-> m, priority |-> ms[m].priority, content |-> ms[m].content, how |-> how]

RECURSIVE Entries(_, _, _)
Entries(ms, s, how) ==
  IF s = <<>> THEN <<>>
  ELSE <<Entry(ms, Head(s), how)>> \o Entries(ms, Tail(s), how)

Constructed == 1..global_msg_id_counter

\* Messages never yet handed to enqueue or enqueue_batch and accepted.
Fresh == Constructed \ {accepted[i].msg : i \in 1..Len(accepted)}

\* Threads blocked in the condition variable's wait set.
Waiters(p) == {w \in AllThreads : p[w] = "db_wait"}

NotifyNone(p) == {p}

\* cv_.notify_one(): one waiter, if there is any, is woken.
NotifyOne(p) ==
  IF Waiters(p) = {} THEN {p}
  ELSE {[p EXCEPT ![w] = "db_woken"] : w \in Waiters(p)}

\* cv_.notify_all(): every waiter is woken.
NotifyAll(p) ==
  {[w \in AllThreads |-> IF p[w] = "db_wait" THEN "db_woken" ELSE p[w]]}

\* The payload a caller gives its n-th message (the tests number theirs).
Payload(n) == 100 + n

\* make_msg<T>(priority, content), called once for each priority of ps in
\* turn from the counter value id on: each constructor draws the next id.
RECURSIVE Construct(_, _)
Construct(ps, id) ==
  IF ps = <<>> THEN <<>>
  ELSE <<BaseMsg(Head(ps), Payload(id), id)>> \o Construct(Tail(ps), id + 1)

\* ------------------------------------------------- the router's state

\* The topics and payload types the callers use, and the threads: two
\* publishers, a client that manages the router and its subscriptions,
\* and the worker threads start() can spawn.
Topics == {"A", "B"}
Types == {"int", "string"}
Publishers == {"publisher", "publisher2"}
Client == "client"
Workers == {"worker", "worker2"}
RouterThreads == Publishers \cup {Client} \cup Workers

\* processTopicQueue's cap on the messages it takes in one call.
max_batch == 10

\* One message more than processTopicQueue takes in one call.
Backlog == max_batch + 1

\* PubSubSystem::Config with its default values.
Config == [default_queue_size |-> 1000, worker_thread_count |-> 1,
           enable_statistics |-> TRUE]

\* The configurations the routers are constructed with.
Configs ==
  [default_queue_size : 1..MaxQueueSize, worker_thread_count : {1, 2},
   enable_statistics : BOOLEAN]

\* PubSubSystem::TopicStatistics, all counters 0.
TopicStatistics == [messages_published |-> 0, messages_processed |-> 0,
                    active_subscribers |-> 0, total_processing_time_us |-> 0]

\* std::unordered_map: the empty map, operator[] as a read (a missing key
\* reads as the default value d) and as a write.
NoEntries == [k \in {} |-> k]
GetAny(f, k, d) == IF DOMAIN f = {} THEN d ELSE f[CHOOSE x \in DOMAIN f : TRUE]
Get(f, k, d) == IF k \in DOMAIN f THEN f[k] ELSE d
Put(f, k, v) == [x \in DOMAIN f \cup {k} |-> IF x = k THEN v ELSE f[x]]

\* A router thread's locals outside any call.
NoRouterLocals == [topic |-> "", message |-> NullMsg, queue |-> 0, todo |-> {},
                   processed_any |-> FALSE, processed_count |-> 0,
                   subs |-> <<>>, call_result |-> FALSE,
                   messages |-> <<>>, published_count |-> 0]

\* The threads start() spawns for worker_thread_count n.
WorkerPool(n) == IF n = 1 THEN {"worker"} ELSE Workers

\* PubSubSystem(config): not running, no topic, no subscription, ids
\* from 1 on.
\* stats_mutex_: NoThread when free, else the thread holding it. Every
\* other holder takes and releases it within one step; a publisher that
\* has to insert its topic into topic_stats_ holds it from the lookup to
\* its return.
stats_mutex_ ==
  IF \E t \in Publishers : rpc[t] = "pm_insert"
  THEN CHOOSE t \in Publishers : rpc[t] = "pm_insert"
  ELSE NoThread

\* The messages the callers of a router construct in one run: MaxPublish,
\* and a Backlog for a router whose queues hold one.
Budget ==
  IF config_.default_queue_size > MaxQueueSize THEN Backlog ELSE MaxPublish

PubSubSystem(config) ==
  /\ config_ = config
  /\ running_ = FALSE
  /\ should_stop_ = FALSE
  /\ next_subscription_id_ = 1
  /\ subscribers_ = NoEntries
  /\ topic_queues_ = NoEntries
  /\ subscribers_mutex_ = NoThread
  /\ topic_stats_ = NoEntries
  /\ worker_threads_ = {}
  /\ queues = <<>>
  /\ rpc = [t \in RouterThreads |-> IF t \in Workers THEN "unborn" ELSE "idle"]
  /\ rloc = [t \in RouterThreads |-> NoRouterLocals]
  /\ rret = [t \in RouterThreads |-> NoReturn]
  /\ sent = <<>>
  /\ published = {}
  /\ subscribed = <<>>
  /\ unsubscribed = {}
  /\ dropped = {}
  /\ invoked = <<>>

\* MsgQueue(max_size): an empty queue, of any capacity; the callers have
\* constructed their messages, with any priorities, and enqueued none.
Init ==
  /\ PubSubSystem(Config)
  /\ global_msg_id_counter = MaxMsgs
  /\ msgs \in {Construct(ps, 0) : ps \in [1..MaxMsgs -> Priorities]}
  /\ msg_queue_ = <<>>
  /\ max_size_ \in 1..MaxCapacity
  /\ mtx_ = NoThread
  /\ stats_ = Statistics
  /\ clock = 0
  /\ pc = [t \in AllThreads |-> "idle"]
  /\ loc = [t \in AllThreads |-> NoLocals]
  /\ ret = [t \in AllThreads |-> NoReturn]
  /\ accepted = <<>>
  /\ removed = <<>>
  /\ cleared = FALSE
  /\ reset_done = FALSE
  /\ peak_hist = 0

\* The same with the priorities fixed: the messages are constructed with
\* the priorities 1, 2, ... taken modulo the number of priorities in turn,
\* so that messages of equal and of different priority exist.
InitAlternating ==
  /\ Init
  /\ msgs = Construct([m \in 1..MaxMsgs |-> m % (MaxPriority + 1)], 0)

hist == <<accepted, removed, cleared, reset_done, peak_hist>>

\* The standalone queue and its callers.
standalone == <<msg_queue_, mtx_, stats_, pc, loc, ret, hist>>

\* A router constructed with any configuration; no message exists yet,
\* and every queue the router creates has its default_queue_size.
InitRouter ==
  /\ \E config \in Configs : PubSubSystem(config)
  /\ global_msg_id_counter = 0
  /\ msgs = <<>>
  /\ msg_queue_ = <<>>
  /\ max_size_ = config_.default_queue_size
  /\ mtx_ = NoThread
  /\ stats_ = Statistics
  /\ clock = 0
  /\ pc = [t \in AllThreads |-> "idle"]
  /\ loc = [t \in AllThreads |-> NoLocals]
  /\ ret = [t \in AllThreads |-> NoReturn]
  /\ accepted = <<>>
  /\ removed = <<>>
  /\ cleared = FALSE
  /\ reset_done = FALSE
  /\ peak_hist = 0

\* Time passes: system_clock, read for the timestamps, advances by a
\* microsecond.
Tick ==
  /\ clock < MaxClock
  /\ clock' = clock + 1
  /\ UNCHANGED <<router, global_msg_id_counter, msgs, msg_queue_, max_size_, mtx_,
                 stats_, pc, loc, ret, hist>>

\* ------------------------------------------------------------- enqueue

\* enqueue(nullptr): `if (!msg) return false`, before the mutex is taken.
EnqueueNull(t) ==
  /\ pc[t] = "idle"
  /\ pc' = [pc EXCEPT ![t] = "done"]
  /\ ret' = [ret EXCEPT ![t] = Return("enqueue", FALSE, 0, <<NullMsg>>)]
  /\ UNCHANGED <<router, global_msg_id_counter, msgs, msg_queue_, max_size_, mtx_,
                 stats_, clock, loc, hist>>

FullOffByOne(s) == Len(s) > max_size_

\* The overflow check of enqueue and enqueue_batch.
Full(s) == Len(s) >= max_size_

StampAlways(ms, s, m, now) == setTimestamp(ms, m, now)

\* The message's timestamp after the overflow check and setTimestamp.
Stamp(ms, s, m, now) == IF Full(s) THEN ms ELSE setTimestamp(ms, m, now)

\* enqueue(msg), from the lock to total_enqueued.fetch_add: a full queue
\* rejects; otherwise the message is stamped with the clock and pushed.
EnqueueLock(t, m) ==
  /\ pc[t] = "idle"
  /\ mtx_ = NoThread
  /\ m \in Fresh
  /\ msgs' = Stamp(msgs, msg_queue_, m, clock)
  /\ IF Full(msg_queue_)
     THEN /\ pc' = [pc EXCEPT ![t] = "done"]
          /\ ret' = [ret EXCEPT ![t] = Return("enqueue", FALSE, 0, <<m>>)]
          /\ UNCHANGED <<msg_queue_, mtx_, stats_, loc, accepted>>
     ELSE /\ msg_queue_' = Push(msgs', msg_queue_, m)
          /\ stats_' = [stats_ EXCEPT !.total_enqueued = @ + 1]
          /\ mtx_' = t
          /\ pc' = [pc EXCEPT ![t] = "enq_cur"]
          /\ loc' = [loc EXCEPT ![t] = [NoLocals EXCEPT !.msg = m]]
          /\ accepted' = Append(accepted, Entry(msgs, m, "enqueue"))
          /\ UNCHANGED ret
  /\ UNCHANGED <<router, global_msg_id_counter, max_size_, clock, removed, cleared,
                 reset_done, peak_hist>>

\* auto current_size = ++stats_.current_size
EnqueueCur(t) ==
  /\ pc[t] = "enq_cur"
  /\ stats_' = [stats_ EXCEPT !.current_size = @ + 1]
  /\ loc' = [loc EXCEPT ![t].current_size = stats_.current_size + 1]
  /\ peak_hist' = Max(peak_hist, stats_.current_size + 1)
  /\ pc' = [pc EXCEPT ![t] = "enq_load"]
  /\ UNCHANGED <<router, global_msg_id_counter, msgs, msg_queue_, max_size_, mtx_,
                 clock, ret, accepted, removed, cleared, reset_done>>

\* uint64_t expected_peak = stats_.peak_size.load()
EnqueuePeakLoad(t) ==
  /\ pc[t] = "enq_load"
  /\ loc' = [loc EXCEPT ![t].expected_peak = stats_.peak_size]
  /\ pc' = [pc EXCEPT ![t] = "enq_cas"]
  /\ UNCHANGED <<router, global_msg_id_counter, msgs, msg_queue_, max_size_, mtx_,
                 stats_, clock, ret, hist>>

\* One turn of the peak loop, `while (current_size > expected_peak &&
\* !peak_size.compare_exchange_weak(expected_peak, current_size))`:
\* "done" with the new peak, or "retry" with the reloaded expected_peak.
PeakLoop(l, peak) ==
  IF l.current_size > l.expected_peak
  THEN IF peak = l.expected_peak
       THEN [next |-> "done", peak |-> l.current_size, expected_peak |-> l.expected_peak]
       ELSE [next |-> "retry", peak |-> peak, expected_peak |-> peak]
  ELSE [next |-> "done", peak |-> peak, expected_peak |-> l.expected_peak]

\* The peak loop of enqueue; when it ends: cv_.notify_one(), unlock,
\* return true.
EnqueuePeakCas(t) ==
  /\ pc[t] = "enq_cas"
  /\ LET r == PeakLoop(loc[t], stats_.peak_size) IN
     /\ stats_' = [stats_ EXCEPT !.peak_size = r.peak]
     /\ IF r.next = "retry"
        THEN /\ loc' = [loc EXCEPT ![t].expected_peak = r.expected_peak]
             /\ UNCHANGED <<pc, mtx_, ret>>
        ELSE /\ pc' \in NotifyOne([pc EXCEPT ![t] = "done"])
             /\ mtx_' = NoThread
             /\ ret' = [ret EXCEPT ![t] = Return("enqueue", TRUE, 0, <<>>)]
             /\ loc' = [loc EXCEPT ![t] = NoLocals]
  /\ UNCHANGED <<router, global_msg_id_counter, msgs, msg_queue_, max_size_, clock, hist>>

\* ------------------------------------------------------- enqueue_batch

\* enqueue_batch of an empty vector: returns 0 before the mutex is taken.
EnqueueBatchEmpty(t) ==
  /\ pc[t] = "idle"
  /\ pc' = [pc EXCEPT ![t] = "done"]
  /\ ret' = [ret EXCEPT ![t] = Return("enqueue_batch", FALSE, 0, <<>>)]
  /\ UNCHANGED <<router, global_msg_id_counter, msgs, msg_queue_, max_size_, mtx_,
                 stats_, clock, loc, hist>>

RECURSIVE BatchLoopSkipNull(_, _, _, _, _, _)
RECURSIVE BatchLoop(_, _, _, _, _, _)
BatchLoopSkipNull(ms, s, messages, i, timestamp, enqueued_count) ==
  IF i > Len(messages) \/ Full(s)
  THEN [msgs |-> ms, queue |-> s, enqueued_count |-> enqueued_count, pushed |-> <<>>]
  ELSE IF messages[i] = NullMsg
  THEN BatchLoopSkipNull(ms, s, messages, i + 1, timestamp, enqueued_count)
  ELSE LET stamped == setTimestamp(ms, messages[i], timestamp)
           rest == BatchLoopSkipNull(stamped, Push(stamped, s, messages[i]),
                                     messages, i + 1, timestamp, enqueued_count + 1)
       IN [rest EXCEPT !.pushed = <<messages[i]>> \o @]

\* The loop of enqueue_batch from entry i on: each message is stamped
\* with the batch's timestamp and pushed; a null entry or a full queue
\* breaks.  Returns the messages, the heap array, enqueued_count and the
\* entries pushed, in order.
BatchLoop(ms, s, messages, i, timestamp, enqueued_count) ==
  IF i > Len(messages) \/ messages[i] = NullMsg \/ Full(s)
  THEN [msgs |-> ms, queue |-> s, enqueued_count |-> enqueued_count, pushed |-> <<>>]
  ELSE LET stamped == setTimestamp(ms, messages[i], timestamp)
           rest == BatchLoop(stamped, Push(stamped, s, messages[i]), messages,
                             i + 1, timestamp, enqueued_count + 1)
       IN [rest EXCEPT !.pushed = <<messages[i]>> \o @]

\* The vectors enqueue_batch is called with: null entries and distinct
\* messages not yet accepted by the queue.
Batches ==
  {b \in UNION {[1..n -> Fresh \cup {NullMsg}] : n \in 1..MaxBatch} :
     \A i, j \in DOMAIN b : (i # j /\ b[i] # NullMsg) => b[i] # b[j]}

\* enqueue_batch(messages), from the lock to total_enqueued.fetch_add.
EnqueueBatchLock(t, messages) ==
  /\ pc[t] = "idle"
  /\ mtx_ = NoThread
  /\ messages \in Batches
  /\ LET r == BatchLoop(msgs, msg_queue_, messages, 1, clock, 0) IN
     /\ msgs' = r.msgs
     /\ msg_queue_' = r.queue
     /\ accepted' = accepted \o Entries(msgs, r.pushed, "enqueue_batch")
     /\ IF r.enqueued_count > 0
        THEN /\ stats_' = [stats_ EXCEPT !.total_enqueued = @ + r.enqueued_count]
             /\ mtx_' = t
             /\ pc' = [pc EXCEPT ![t] = "eb_cur"]
             /\ loc' = [loc EXCEPT ![t] = [NoLocals EXCEPT
                          !.messages = messages,
                          !.enqueued_count = r.enqueued_count]]
             /\ UNCHANGED ret
        ELSE /\ pc' = [pc EXCEPT ![t] = "done"]
             /\ ret' = [ret EXCEPT ![t] = Return("enqueue_batch", FALSE, 0, messages)]
             /\ UNCHANGED <<stats_, mtx_, loc>>
  /\ UNCHANGED <<router, global_msg_id_counter, max_size_, clock, removed, cleared,
                 reset_done, peak_hist>>

\* auto current_size = stats_.current_size.fetch_add(enqueued_count) + enqueued_count
EnqueueBatchCur(t) ==
  /\ pc[t] = "eb_cur"
  /\ stats_' = [stats_ EXCEPT !.current_size = @ + loc[t].enqueued_count]
  /\ loc' = [loc EXCEPT ![t].current_size = stats_.current_size + loc[t].enqueued_count]
  /\ peak_hist' = Max(peak_hist, stats_.current_size + loc[t].enqueued_count)
  /\ pc' = [pc EXCEPT ![t] = "eb_load"]
  /\ UNCHANGED <<router, global_msg_id_counter, msgs, msg_queue_, max_size_, mtx_,
                 clock, ret, accepted, removed, cleared, reset_done>>

\* uint64_t expected_peak = stats_.peak_size.load()
EnqueueBatchPeakLoad(t) ==
  /\ pc[t] = "eb_load"
  /\ loc' = [loc EXCEPT ![t].expected_peak = stats_.peak_size]
  /\ pc' = [pc EXCEPT ![t] = "eb_cas"]
  /\ UNCHANGED <<router, global_msg_id_counter, msgs, msg_queue_, max_size_, mtx_,
                 stats_, clock, ret, hist>>

\* The peak loop of enqueue_batch; when it ends: cv_.notify_all(),
\* unlock, return enqueued_count.
EnqueueBatchPeakCas(t) ==
  /\ pc[t] = "eb_cas"
  /\ LET r == PeakLoop(loc[t], stats_.peak_size) IN
     /\ stats_' = [stats_ EXCEPT !.peak_size = r.peak]
     /\ IF r.next = "retry"
        THEN /\ loc' = [loc EXCEPT ![t].expected_peak = r.expected_peak]
             /\ UNCHANGED <<pc, mtx_, ret>>
        ELSE /\ pc' \in NotifyAll([pc EXCEPT ![t] = "done"])
             /\ mtx_' = NoThread
             /\ ret' = [ret EXCEPT ![t] = Return("enqueue_batch", FALSE,
                                                 loc[t].enqueued_count, <<>>)]
             /\ loc' = [loc EXCEPT ![t] = NoLocals]
  /\ UNCHANGED <<router, global_msg_id_counter, msgs, msg_queue_, max_size_, clock, hist>>

\* ------------------------------------------------------------- dequeue

\* dequeue(), from the lock to total_dequeued.fetch_add: an empty queue
\* returns nullptr; otherwise the top is taken and popped.
DequeueLock(t) ==
  /\ pc[t] = "idle"
  /\ mtx_ = NoThread
  /\ IF empty
     THEN /\ pc' = [pc EXCEPT ![t] = "done"]
          /\ ret' = [ret EXCEPT ![t] = Return("dequeue", FALSE, 0, <<>>)]
          /\ UNCHANGED <<msg_queue_, mtx_, stats_, loc, removed>>
     ELSE /\ msg_queue_' = Pop(msgs, msg_queue_)
          /\ stats_' = [stats_ EXCEPT !.total_dequeued = @ + 1]
          /\ mtx_' = t
          /\ pc' = [pc EXCEPT ![t] = "dq_cur"]
          /\ loc' = [loc EXCEPT ![t] = [NoLocals EXCEPT !.result = <<Top(msg_queue_)>>]]
          /\ removed' = Append(removed, Entry(msgs, Top(msg_queue_), "out"))
          /\ UNCHANGED ret
  /\ UNCHANGED <<router, global_msg_id_counter, msgs, max_size_, clock, accepted,
                 cleared, reset_done, peak_hist>>

DequeueCurForgotten(t) ==
  /\ pc[t] = "dq_cur"
  /\ mtx_' = NoThread
  /\ pc' = [pc EXCEPT ![t] = "done"]
  /\ ret' = [ret EXCEPT ![t] = Return("dequeue", TRUE, 1, loc[t].result)]
  /\ loc' = [loc EXCEPT ![t] = NoLocals]
  /\ UNCHANGED <<router, global_msg_id_counter, msgs, msg_queue_, max_size_, stats_,
                 clock, hist>>

\* stats_.current_size.fetch_sub(1); unlock; return result
DequeueCur(t) ==
  /\ pc[t] = "dq_cur"
  /\ stats_' = [stats_ EXCEPT !.current_size = @ - 1]
  /\ mtx_' = NoThread
  /\ pc' = [pc EXCEPT ![t] = "done"]
  /\ ret' = [ret EXCEPT ![t] = Return("dequeue", TRUE, 1, loc[t].result)]
  /\ loc' = [loc EXCEPT ![t] = NoLocals]
  /\ UNCHANGED <<router, global_msg_id_counter, msgs, msg_queue_, max_size_, clock, hist>>

\* ------------------------------------------------------- dequeue_block

\* dequeue_block(timeout), the lock and the first test of the wait
\* predicate: a non-empty queue goes on to the pop, an empty one releases
\* the mutex and blocks in cv_.wait / cv_.wait_for.
DequeueBlockLock(t, infinite) ==
  /\ pc[t] = "idle"
  /\ mtx_ = NoThread
  /\ loc' = [loc EXCEPT ![t] = [NoLocals EXCEPT !.infinite = infinite]]
  /\ IF empty
     THEN /\ pc' = [pc EXCEPT ![t] = "db_wait"]
          /\ UNCHANGED mtx_
     ELSE /\ pc' = [pc EXCEPT ![t] = "db_pop"]
          /\ mtx_' = t
  /\ UNCHANGED <<router, global_msg_id_counter, msgs, msg_queue_, max_size_, stats_,
                 clock, ret, accepted, removed, cleared, reset_done, peak_hist>>

\* The timeout of cv_.wait_for elapses: the thread leaves the wait set.
DequeueBlockTimeout(t) ==
  /\ pc[t] = "db_wait"
  /\ ~loc[t].infinite
  /\ pc' = [pc EXCEPT ![t] = "db_woken"]
  /\ loc' = [loc EXCEPT ![t].timed_out = TRUE]
  /\ UNCHANGED <<router, global_msg_id_counter, msgs, msg_queue_, max_size_, mtx_,
                 stats_, clock, ret, hist>>

\* A condition variable may wake a waiter that nobody notified.
DequeueBlockSpurious(t) ==
  /\ pc[t] = "db_wait"
  /\ pc' = [pc EXCEPT ![t] = "db_woken"]
  /\ UNCHANGED <<router, global_msg_id_counter, msgs, msg_queue_, max_size_, mtx_,
                 stats_, clock, loc, ret, hist>>

WokenNoRecheck(t) == "db_pop"

\* A woken waiter holds the mutex again and tests the predicate: a
\* non-empty queue ends the wait, a timeout ends it with the predicate's
\* value, anything else blocks again.
Woken(t) ==
  IF ~empty THEN "db_pop"
  ELSE IF loc[t].timed_out THEN "timeout"
  ELSE "db_wait"

\* The wait of dequeue_block goes on after a wake-up; on a timeout with
\* the queue empty: `if (!wait_result) return nullptr`.
DequeueBlockWoken(t) ==
  /\ pc[t] = "db_woken"
  /\ mtx_ = NoThread
  /\ LET next == Woken(t) IN
     IF next = "timeout"
     THEN /\ pc' = [pc EXCEPT ![t] = "done"]
          /\ ret' = [ret EXCEPT ![t] = Return("dequeue_block", FALSE, 0, <<>>)]
          /\ loc' = [loc EXCEPT ![t] = NoLocals]
          /\ UNCHANGED mtx_
     ELSE /\ pc' = [pc EXCEPT ![t] = next]
          /\ mtx_' = IF next = "db_pop" THEN t ELSE NoThread
          /\ loc' = [loc EXCEPT ![t].timed_out = FALSE]
          /\ UNCHANGED ret
  /\ UNCHANGED <<router, global_msg_id_counter, msgs, msg_queue_, max_size_, stats_,
                 clock, hist>>

\* result = top(); pop(); wait_time = end_time - start_time, what the
\* high-resolution clock measured since the call began;
\* total_dequeued.fetch_add(1)
DequeueBlockPop(t, wait_time) ==
  /\ pc[t] = "db_pop"
  /\ IF empty
     THEN \* top() and pop() of an empty container: undefined behaviour
          /\ loc' = [loc EXCEPT ![t].result = <<NullMsg>>]
          /\ UNCHANGED <<msg_queue_, removed>>
     ELSE /\ loc' = [loc EXCEPT ![t].result = <<Top(msg_queue_)>>,
                                ![t].wait_time = wait_time]
          /\ msg_queue_' = Pop(msgs, msg_queue_)
          /\ removed' = Append(removed, Entry(msgs, Top(msg_queue_), "out"))
  /\ stats_' = [stats_ EXCEPT !.total_dequeued = @ + 1]
  /\ pc' = [pc EXCEPT ![t] = "db_cur"]
  /\ UNCHANGED <<router, global_msg_id_counter, msgs, max_size_, mtx_, clock, ret,
                 accepted, cleared, reset_done, peak_hist>>

\* stats_.current_size.fetch_sub(1)
DequeueBlockCur(t) ==
  /\ pc[t] = "db_cur"
  /\ stats_' = [stats_ EXCEPT !.current_size = @ - 1]
  /\ pc' = [pc EXCEPT ![t] = "db_time"]
  /\ UNCHANGED <<router, global_msg_id_counter, msgs, msg_queue_, max_size_, mtx_,
                 clock, loc, ret, hist>>

\* stats_.total_wait_time_us.fetch_add(wait_time.count())
DequeueBlockWaitTime(t) ==
  /\ pc[t] = "db_time"
  /\ stats_' = [stats_ EXCEPT !.total_wait_time_us = @ + loc[t].wait_time]
  /\ pc' = [pc EXCEPT ![t] = "db_count"]
  /\ UNCHANGED <<router, global_msg_id_counter, msgs, msg_queue_, max_size_, mtx_,
                 clock, loc, ret, hist>>

\* stats_.wait_count.fetch_add(1); unlock; return result
DequeueBlockWaitCount(t) ==
  /\ pc[t] = "db_count"
  /\ stats_' = [stats_ EXCEPT !.wait_count = @ + 1]
  /\ mtx_' = NoThread
  /\ pc' = [pc EXCEPT ![t] = "done"]
  /\ ret' = [ret EXCEPT ![t] = Return("dequeue_block", TRUE, 1, loc[t].result)]
  /\ loc' = [loc EXCEPT ![t] = NoLocals]
  /\ UNCHANGED <<router, global_msg_id_counter, msgs, msg_queue_, max_size_, clock, hist>>

\* ------------------------------------------------------- dequeue_batch

RECURSIVE DequeueLoopReversed(_, _, _, _)
RECURSIVE DequeueLoop(_, _, _, _)
DequeueLoopReversed(ms, s, messages, max_count) ==
  IF Len(messages) < max_count /\ s # <<>>
  THEN DequeueLoopReversed(ms, Pop(ms, s), <<Top(s)>> \o messages, max_count)
  ELSE [messages |-> messages, queue |-> s]

\* The loop of dequeue_batch: top and pop while dequeued_count is below
\* max_count and the queue is not empty.  Returns the messages taken and
\* the heap array left.
DequeueLoop(ms, s, messages, max_count) ==
  IF Len(messages) < max_count /\ s # <<>>
  THEN DequeueLoop(ms, Pop(ms, s), Append(messages, Top(s)), max_count)
  ELSE [messages |-> messages, queue |-> s]

\* dequeue_batch(messages, max_count), from the lock to
\* total_dequeued.fetch_add.
DequeueBatchLock(t, max_count) ==
  /\ pc[t] = "idle"
  /\ mtx_ = NoThread
  /\ LET r == DequeueLoop(msgs, msg_queue_, <<>>, max_count) IN
     /\ msg_queue_' = r.queue
     /\ removed' = removed \o Entries(msgs, r.messages, "out")
     /\ IF Len(r.messages) > 0
        THEN /\ stats_' = [stats_ EXCEPT !.total_dequeued = @ + Len(r.messages)]
             /\ mtx_' = t
             /\ pc' = [pc EXCEPT ![t] = "dqb_cur"]
             /\ loc' = [loc EXCEPT ![t] = [NoLocals EXCEPT !.result = r.messages]]
             /\ UNCHANGED ret
        ELSE /\ pc' = [pc EXCEPT ![t] = "done"]
             /\ ret' = [ret EXCEPT ![t] = Return("dequeue_batch", FALSE, 0, <<>>)]
             /\ UNCHANGED <<stats_, mtx_, loc>>
  /\ UNCHANGED <<router, global_msg_id_counter, msgs, max_size_, clock, accepted,
                 cleared, reset_done, peak_hist>>

\* stats_.current_size.fetch_sub(dequeued_count); unlock; return
DequeueBatchCur(t) ==
  /\ pc[t] = "dqb_cur"
  /\ stats_' = [stats_ EXCEPT !.current_size = @ - Len(loc[t].result)]
  /\ mtx_' = NoThread
  /\ pc' = [pc EXCEPT ![t] = "done"]
  /\ ret' = [ret EXCEPT ![t] = Return("dequeue_batch", TRUE, Len(loc[t].result),
                                      loc[t].result)]
  /\ loc' = [loc EXCEPT ![t] = NoLocals]
  /\ UNCHANGED <<router, global_msg_id_counter, msgs, msg_queue_, max_size_, clock, hist>>

\* -------------------------------------------- clear, resetStatistics

ClearResetsCounters(t) ==
  /\ pc[t] = "idle"
  /\ mtx_ = NoThread
  /\ msg_queue_' = <<>>
  /\ stats_' = Statistics
  /\ cleared' = TRUE
  /\ UNCHANGED <<router, global_msg_id_counter, msgs, max_size_, mtx_, clock, pc, loc,
                 ret, accepted, removed, reset_done, peak_hist>>

\* clear(): under the mutex every message is popped and current_size is
\* stored as 0.
Clear(t) ==
  /\ pc[t] = "idle"
  /\ mtx_ = NoThread
  /\ msg_queue_' = <<>>
  /\ stats_' = [stats_ EXCEPT !.current_size = 0]
  /\ cleared' = TRUE
  /\ UNCHANGED <<router, global_msg_id_counter, msgs, max_size_, mtx_, clock, pc, loc,
                 ret, accepted, removed, reset_done, peak_hist>>

\* resetStatistics(), first store, taken without the mutex:
\* total_enqueued.store(0)
ResetEnqueued(t) ==
  /\ pc[t] = "idle"
  /\ stats_' = [stats_ EXCEPT !.total_enqueued = 0]
  /\ pc' = [pc EXCEPT ![t] = "rs_deq"]
  /\ reset_done' = TRUE
  /\ UNCHANGED <<router, global_msg_id_counter, msgs, msg_queue_, max_size_, mtx_,
                 clock, loc, ret, accepted, removed, cleared, peak_hist>>

\* total_dequeued.store(0)
ResetDequeued(t) ==
  /\ pc[t] = "rs_deq"
  /\ stats_' = [stats_ EXCEPT !.total_dequeued = 0]
  /\ pc' = [pc EXCEPT ![t] = "rs_load"]
  /\ UNCHANGED <<router, global_msg_id_counter, msgs, msg_queue_, max_size_, mtx_,
                 clock, loc, ret, hist>>

\* stats_.current_size.load(), the argument of the peak_size store
ResetLoadCurrent(t) ==
  /\ pc[t] = "rs_load"
  /\ loc' = [loc EXCEPT ![t].current_size = stats_.current_size]
  /\ pc' = [pc EXCEPT ![t] = "rs_peak"]
  /\ UNCHANGED <<router, global_msg_id_counter, msgs, msg_queue_, max_size_, mtx_,
                 stats_, clock, ret, hist>>

ResetStorePeakZero(t) ==
  /\ pc[t] = "rs_peak"
  /\ stats_' = [stats_ EXCEPT !.peak_size = 0]
  /\ peak_hist' = stats_.current_size
  /\ pc' = [pc EXCEPT ![t] = "rs_time"]
  /\ UNCHANGED <<router, global_msg_id_counter, msgs, msg_queue_, max_size_, mtx_,
                 clock, loc, ret, accepted, removed, cleared, reset_done>>

\* peak_size.store(the loaded current_size); the history of the peak
\* starts again from the size the queue has now.
ResetStorePeak(t) ==
  /\ pc[t] = "rs_peak"
  /\ stats_' = [stats_ EXCEPT !.peak_size = loc[t].current_size]
  /\ peak_hist' = stats_.current_size
  /\ pc' = [pc EXCEPT ![t] = "rs_time"]
  /\ UNCHANGED <<router, global_msg_id_counter, msgs, msg_queue_, max_size_, mtx_,
                 clock, loc, ret, accepted, removed, cleared, reset_done>>

\* total_wait_time_us.store(0)
ResetWaitTime(t) ==
  /\ pc[t] = "rs_time"
  /\ stats_' = [stats_ EXCEPT !.total_wait_time_us = 0]
  /\ pc' = [pc EXCEPT ![t] = "rs_count"]
  /\ UNCHANGED <<router, global_msg_id_counter, msgs, msg_queue_, max_size_, mtx_,
                 clock, loc, ret, hist>>

\* wait_count.store(0); return
ResetWaitCount(t) ==
  /\ pc[t] = "rs_count"
  /\ stats_' = [stats_ EXCEPT !.wait_count = 0]
  /\ pc' = [pc EXCEPT ![t] = "idle"]
  /\ loc' = [loc EXCEPT ![t] = NoLocals]
  /\ UNCHANGED <<router, global_msg_id_counter, msgs, msg_queue_, max_size_, mtx_,
                 clock, ret, hist>>

\* getStatistics() returns a copy of stats_, taking no mutex: the copy
\* constructor of Statistics loads the six counters one after the other.
\* total_enqueued.store(other.total_enqueued.load())
GetEnqueued(t) ==
  /\ pc[t] = "idle"
  /\ loc' = [loc EXCEPT ![t] = [NoLocals EXCEPT
                !.snapshot.total_enqueued = stats_.total_enqueued]]
  /\ pc' = [pc EXCEPT ![t] = "gs_deq"]
  /\ UNCHANGED <<router, global_msg_id_counter, msgs, msg_queue_, max_size_, mtx_,
                 stats_, clock, ret, hist>>

\* total_dequeued.store(other.total_dequeued.load())
GetDequeued(t) ==
  /\ pc[t] = "gs_deq"
  /\ loc' = [loc EXCEPT ![t].snapshot.total_dequeued = stats_.total_dequeued]
  /\ pc' = [pc EXCEPT ![t] = "gs_cur"]
  /\ UNCHANGED <<router, global_msg_id_counter, msgs, msg_queue_, max_size_, mtx_,
                 stats_, clock, ret, hist>>

\* current_size.store(other.current_size.load())
GetCurrent(t) ==
  /\ pc[t] = "gs_cur"
  /\ loc' = [loc EXCEPT ![t].snapshot.current_size = stats_.current_size]
  /\ pc' = [pc EXCEPT ![t] = "gs_peak"]
  /\ UNCHANGED <<router, global_msg_id_counter, msgs, msg_queue_, max_size_, mtx_,
                 stats_, clock, ret, hist>>

\* peak_size.store(other.peak_size.load())
GetPeak(t) ==
  /\ pc[t] = "gs_peak"
  /\ loc' = [loc EXCEPT ![t].snapshot.peak_size = stats_.peak_size]
  /\ pc' = [pc EXCEPT ![t] = "gs_time"]
  /\ UNCHANGED <<router, global_msg_id_counter, msgs, msg_queue_, max_size_, mtx_,
                 stats_, clock, ret, hist>>

\* total_wait_time_us.store(other.total_wait_time_us.load())
GetWaitTime(t) ==
  /\ pc[t] = "gs_time"
  /\ loc' = [loc EXCEPT ![t].snapshot.total_wait_time_us = stats_.total_wait_time_us]
  /\ pc' = [pc EXCEPT ![t] = "gs_count"]
  /\ UNCHANGED <<router, global_msg_id_counter, msgs, msg_queue_, max_size_, mtx_,
                 stats_, clock, ret, hist>>

\* wait_count.store(other.wait_count.load()); return
GetWaitCount(t) ==
  /\ pc[t] = "gs_count"
  /\ ret' = [ret EXCEPT ![t] =
               [Return("getStatistics", TRUE, 0, <<>>) EXCEPT
                  !.stats = [loc[t].snapshot EXCEPT !.wait_count = stats_.wait_count]]]
  /\ loc' = [loc EXCEPT ![t] = NoLocals]
  /\ pc' = [pc EXCEPT ![t] = "done"]
  /\ UNCHANGED <<router, global_msg_id_counter, msgs, msg_queue_, max_size_, mtx_,
                 stats_, clock, hist>>

\* The caller takes the returned value and goes on.
Resume(t) ==
  /\ pc[t] = "done"
  /\ pc' = [pc EXCEPT ![t] = "idle"]
  /\ ret' = [ret EXCEPT ![t] = NoReturn]
  /\ UNCHANGED <<router, global_msg_id_counter, msgs, msg_queue_, max_size_, mtx_,
                 stats_, clock, loc, hist>>

\* ---------------------------------------------------------- SubCallback

\* make_msg<T>(priority, content): a Msg<T>, whose content has type T.
Msg(T, _priority, _content, id) ==
  BaseMsg(_priority, [type |-> T, value |-> _content], id)

\* std::dynamic_pointer_cast<Msg<T>>(msg) is not null.
DynamicPointerCast(T, ms, m) == ms[m].content.type = T

CallAnyType(callback, ms, m) ==
  [invoked |-> TRUE, result |-> ~callback.raises]

\* SubCallback<T>::call(msg) for a callback expecting T that raises or
\* returns: whether the user callback is invoked, and the value returned.
Call(callback, ms, m) ==
  IF DynamicPointerCast(callback.T, ms, m)
  THEN [invoked |-> TRUE, result |-> ~callback.raises]
  ELSE [invoked |-> FALSE, result |-> FALSE]

\* -------------------------------------------------- the router's calls

StartOneWorker(t) ==
  /\ rpc[t] = "idle"
  /\ subscribers_mutex_ = NoThread
  /\ IF running_
     THEN UNCHANGED <<should_stop_, running_, worker_threads_, rpc>>
     ELSE /\ should_stop_' = FALSE
          /\ running_' = TRUE
          /\ worker_threads_' = worker_threads_ \cup WorkerPool(1)
          /\ rpc' = [w \in RouterThreads |->
                       IF w \in WorkerPool(1) THEN "w_loop" ELSE rpc[w]]
  /\ rret' = [rret EXCEPT ![t] = Return("start", TRUE, 0, <<>>)]
  /\ UNCHANGED <<standalone, max_size_, clock, global_msg_id_counter, msgs,
                 config_, next_subscription_id_, subscribers_, topic_queues_,
                 subscribers_mutex_, topic_stats_, queues, rloc, sent,
                 published, subscribed, unsubscribed, dropped, invoked>>

\* start(): under subscribers_mutex_; a running router is left alone,
\* otherwise the flags are set and worker_thread_count workers spawned.
Start(t) ==
  /\ rpc[t] = "idle"
  /\ subscribers_mutex_ = NoThread
  /\ IF running_
     THEN UNCHANGED <<should_stop_, running_, worker_threads_, rpc>>
     ELSE /\ should_stop_' = FALSE
          /\ running_' = TRUE
          /\ worker_threads_' = worker_threads_ \cup WorkerPool(config_.worker_thread_count)
          /\ rpc' = [w \in RouterThreads |->
                       IF w \in WorkerPool(config_.worker_thread_count)
                       THEN "w_loop" ELSE rpc[w]]
  /\ rret' = [rret EXCEPT ![t] = Return("start", TRUE, 0, <<>>)]
  /\ UNCHANGED <<standalone, max_size_, clock, global_msg_id_counter, msgs,
                 config_, next_subscription_id_, subscribers_, topic_queues_,
                 subscribers_mutex_, topic_stats_, queues, rloc, sent,
                 published, subscribed, unsubscribed, dropped, invoked>>

\* stop(), holding no mutex: should_stop_.store(true), then
\* running_.store(false), then every worker thread is joined and
\* worker_threads_ cleared.
StopSignal(t) ==
  /\ rpc[t] = "idle"
  /\ should_stop_' = TRUE
  /\ rpc' = [rpc EXCEPT ![t] = "stop_running"]
  /\ UNCHANGED <<standalone, max_size_, clock, global_msg_id_counter, msgs,
                 config_, running_, next_subscription_id_, subscribers_,
                 topic_queues_, subscribers_mutex_, topic_stats_,
                 worker_threads_, queues, rloc, rret, sent, published,
                 subscribed, unsubscribed, dropped, invoked>>

StopRunning(t) ==
  /\ rpc[t] = "stop_running"
  /\ running_' = FALSE
  /\ rpc' = [rpc EXCEPT ![t] = "stop_join"]
  /\ UNCHANGED <<standalone, max_size_, clock, global_msg_id_counter, msgs,
                 config_, should_stop_, next_subscription_id_, subscribers_,
                 topic_queues_, subscribers_mutex_, topic_stats_,
                 worker_threads_, queues, rloc, rret, sent, published,
                 subscribed, unsubscribed, dropped, invoked>>

StopJoinNoWait(t) ==
  /\ rpc[t] = "stop_join"
  /\ worker_threads_' = {}
  /\ rpc' = [rpc EXCEPT ![t] = "idle"]
  /\ rret' = [rret EXCEPT ![t] = Return("stop", TRUE, 0, <<>>)]
  /\ UNCHANGED <<standalone, max_size_, clock, global_msg_id_counter, msgs,
                 config_, running_, should_stop_, next_subscription_id_,
                 subscribers_, topic_queues_, subscribers_mutex_, topic_stats_,
                 queues, rloc, sent, published, subscribed, unsubscribed, dropped,
                 invoked>>

StopJoinDropsQueues(t) ==
  /\ rpc[t] = "stop_join"
  /\ \A w \in worker_threads_ : rpc[w] = "exited"
  /\ worker_threads_' = {}
  /\ queues' = [q \in 1..Len(queues) |-> <<>>]
  /\ rpc' = [rpc EXCEPT ![t] = "idle"]
  /\ rret' = [rret EXCEPT ![t] = Return("stop", TRUE, 0, <<>>)]
  /\ UNCHANGED <<standalone, max_size_, clock, global_msg_id_counter, msgs,
                 config_, running_, should_stop_, next_subscription_id_,
                 subscribers_, topic_queues_, subscribers_mutex_, topic_stats_,
                 rloc, sent, published, subscribed, unsubscribed, dropped,
                 invoked>>

StopJoin(t) ==
  /\ rpc[t] = "stop_join"
  /\ \A w \in worker_threads_ : rpc[w] = "exited"
  /\ worker_threads_' = {}
  /\ rpc' = [rpc EXCEPT ![t] = "idle"]
  /\ rret' = [rret EXCEPT ![t] = Return("stop", TRUE, 0, <<>>)]
  /\ UNCHANGED <<standalone, max_size_, clock, global_msg_id_counter, msgs,
                 config_, running_, should_stop_, next_subscription_id_,
                 subscribers_, topic_queues_, subscribers_mutex_, topic_stats_,
                 queues, rloc, sent, published, subscribed, unsubscribed, dropped,
                 invoked>>

\* The accepted messages that have left their queue.
Dequeued ==
  published \ UNION {Range(queues[q]) : q \in 1..Len(queues)}

\* subscribe<T>(topic, callback): under subscribers_mutex_ the callback is
\* wrapped, given the next id and appended to the topic's list, and the
\* topic's active_subscribers is incremented.
Subscribe(t, topic, T, raises) ==
  /\ rpc[t] = "idle"
  /\ subscribers_mutex_ = NoThread
  /\ next_subscription_id_ <= MaxSubs
  /\ LET sub_id == next_subscription_id_
         sub_callback == [T |-> T, raises |-> raises] IN
     /\ next_subscription_id_' = next_subscription_id_ + 1
     /\ subscribers_' = Put(subscribers_, topic,
                            Append(Get(subscribers_, topic, <<>>),
                                   [first |-> sub_id, second |-> sub_callback]))
     /\ topic_stats_' =
          IF config_.enable_statistics
          THEN Put(topic_stats_, topic,
                   [Get(topic_stats_, topic, TopicStatistics)
                      EXCEPT !.active_subscribers = @ + 1])
          ELSE topic_stats_
     /\ subscribed' = Append(subscribed, [topic |-> topic, T |-> T,
                                          raises |-> raises, id |-> sub_id,
                                          dequeued |-> Dequeued])
     /\ rret' = [rret EXCEPT ![t] = Return("subscribe", TRUE, sub_id, <<>>)]
  /\ UNCHANGED <<standalone, max_size_, clock, global_msg_id_counter, msgs,
                 config_, running_, should_stop_, topic_queues_,
                 subscribers_mutex_, worker_threads_, queues, rpc, rloc, sent,
                 published, unsubscribed, dropped, invoked>>

\* The place of the first entry of a subscriber list with the given id, 0
\* when there is none (std::find_if).
FindIf(subscribers, subscription_id) ==
  IF \E i \in 1..Len(subscribers) : subscribers[i].first = subscription_id
  THEN CHOOSE i \in 1..Len(subscribers) :
         /\ subscribers[i].first = subscription_id
         /\ \A j \in 1..(i - 1) : subscribers[j].first # subscription_id
  ELSE 0

EraseAll(subscribers, i) == <<>>

\* vector::erase of the entry at place i.
Erase(subscribers, i) ==
  SubSeq(subscribers, 1, i - 1) \o SubSeq(subscribers, i + 1, Len(subscribers))

\* unsubscribe(topic, subscription_id): under subscribers_mutex_ the entry
\* with that id is looked for in the topic's list; when found it is erased
\* and the topic's active_subscribers, if the topic has statistics,
\* decremented.
Unsubscribe(t, topic, subscription_id) ==
  /\ rpc[t] = "idle"
  /\ subscribers_mutex_ = NoThread
  /\ LET sub_it == IF topic \in DOMAIN subscribers_
                   THEN FindIf(subscribers_[topic], subscription_id) ELSE 0 IN
     IF sub_it # 0
     THEN /\ config_.enable_statistics => stats_mutex_ = NoThread
          /\ subscribers_' = [subscribers_ EXCEPT ![topic] = Erase(@, sub_it)]
          /\ topic_stats_' =
               IF config_.enable_statistics /\ topic \in DOMAIN topic_stats_
               THEN [topic_stats_ EXCEPT ![topic].active_subscribers = @ - 1]
               ELSE topic_stats_
          /\ unsubscribed' = unsubscribed \cup {subscription_id}
          /\ UNCHANGED dropped
          /\ rret' = [rret EXCEPT ![t] = Return("unsubscribe", TRUE, subscription_id, <<>>)]
     ELSE /\ rret' = [rret EXCEPT ![t] = Return("unsubscribe", FALSE, subscription_id, <<>>)]
          /\ UNCHANGED <<subscribers_, topic_stats_, unsubscribed, dropped>>
  /\ UNCHANGED <<standalone, max_size_, clock, global_msg_id_counter, msgs,
                 config_, running_, should_stop_, next_subscription_id_,
                 topic_queues_, subscribers_mutex_, worker_threads_, queues,
                 rpc, rloc, sent, published, subscribed, invoked>>

RouterClearKeepQueues(t) ==
  /\ rpc[t] = "idle"
  /\ subscribers_mutex_ = NoThread
  /\ stats_mutex_ = NoThread
  /\ subscribers_' = NoEntries
  /\ topic_stats_' = NoEntries
  /\ unsubscribed' = unsubscribed \cup (1..Len(subscribed))
  /\ dropped' = published
  /\ rret' = [rret EXCEPT ![t] = Return("clear", TRUE, 0, <<>>)]
  /\ UNCHANGED <<standalone, max_size_, clock, global_msg_id_counter, msgs,
                 config_, running_, should_stop_, next_subscription_id_,
                 topic_queues_, subscribers_mutex_, worker_threads_, queues,
                 rpc, rloc, sent, published, subscribed, invoked>>

RouterClearIds(t) ==
  /\ rpc[t] = "idle"
  /\ subscribers_mutex_ = NoThread
  /\ stats_mutex_ = NoThread
  /\ subscribers_' = NoEntries
  /\ topic_queues_' = NoEntries
  /\ topic_stats_' = NoEntries
  /\ next_subscription_id_' = 1
  /\ unsubscribed' = unsubscribed \cup (1..Len(subscribed))
  /\ dropped' = published
  /\ rret' = [rret EXCEPT ![t] = Return("clear", TRUE, 0, <<>>)]
  /\ UNCHANGED <<standalone, max_size_, clock, global_msg_id_counter, msgs,
                 config_, running_, should_stop_, subscribers_mutex_,
                 worker_threads_, queues, rpc, rloc, sent, published,
                 subscribed, invoked>>

\* PubSubSystem::clear(): under both mutexes the three maps are emptied.
RouterClear(t) ==
  /\ rpc[t] = "idle"
  /\ subscribers_mutex_ = NoThread
  /\ stats_mutex_ = NoThread
  /\ subscribers_' = NoEntries
  /\ topic_queues_' = NoEntries
  /\ topic_stats_' = NoEntries
  /\ unsubscribed' = unsubscribed \cup (1..Len(subscribed))
  /\ dropped' = published
  /\ rret' = [rret EXCEPT ![t] = Return("clear", TRUE, 0, <<>>)]
  /\ UNCHANGED <<standalone, max_size_, clock, global_msg_id_counter, msgs,
                 config_, running_, should_stop_, next_subscription_id_,
                 subscribers_mutex_, worker_threads_, queues, rpc, rloc, sent,
                 published, subscribed, invoked>>

\* getTopicNames(), getSubscriberCount(topic), getTopicStatistics(topic):
\* the keys of subscribers_, the length of the topic's subscriber list (0
\* without one), the topic's statistics (all zero without an entry).
GetTopicNames == DOMAIN subscribers_
GetSubscriberCount(topic) == Len(Get(subscribers_, topic, <<>>))
GetTopicStatistics(topic) == Get(topic_stats_, topic, TopicStatistics)

\* ------------------------------------------------------------- publish

\* publish<T>(topic, content, priority): a router that is not running
\* returns false; otherwise the message is constructed.
PublishCheck(t, topic, T, priority) ==
  /\ rpc[t] = "idle"
  /\ IF ~running_
     THEN /\ rret' = [rret EXCEPT ![t] = Return("publish", FALSE, 0, <<>>)]
          /\ UNCHANGED <<global_msg_id_counter, msgs, rpc, rloc, sent>>
     ELSE /\ global_msg_id_counter < Budget
          /\ global_msg_id_counter' = global_msg_id_counter + 1
          /\ msgs' = Append(msgs, Msg(T, priority, Payload(global_msg_id_counter),
                                      global_msg_id_counter))
          /\ sent' = Append(sent, topic)
          /\ rloc' = [rloc EXCEPT ![t] = [NoRouterLocals EXCEPT
                        !.topic = topic, !.message = Len(msgs) + 1]]
          /\ rpc' = [rpc EXCEPT ![t] = "pm_running"]
          /\ UNCHANGED rret
  /\ UNCHANGED <<standalone, max_size_, clock, config_, running_, should_stop_,
                 next_subscription_id_, subscribers_, topic_queues_,
                 subscribers_mutex_, topic_stats_, worker_threads_, queues,
                 published, subscribed, unsubscribed, dropped, invoked>>

PublishMessageFindAlways(t) ==
  /\ rpc[t] = "pm_running"
  /\ IF rloc[t].topic \in DOMAIN topic_queues_
     THEN /\ rloc' = [rloc EXCEPT ![t].queue = topic_queues_[rloc[t].topic]]
          /\ rpc' = [rpc EXCEPT ![t] = "pm_enqueue"]
     ELSE /\ rpc' = [rpc EXCEPT ![t] = "pm_create"]
          /\ UNCHANGED rloc
  /\ UNCHANGED <<standalone, max_size_, clock, global_msg_id_counter, msgs,
                 config_, running_, should_stop_, next_subscription_id_,
                 subscribers_, topic_queues_, subscribers_mutex_, topic_stats_,
                 worker_threads_, queues, rret, sent, published, subscribed,
                 unsubscribed, dropped, invoked>>

\* publishMessage(topic, message): running_ is read again, then
\* getOrCreateQueue looks the topic up in topic_queues_, holding no mutex.
PublishMessageFind(t) ==
  /\ rpc[t] = "pm_running"
  /\ IF ~running_
     THEN /\ rret' = [rret EXCEPT ![t] = Return("publish", FALSE, 0, <<>>)]
          /\ rpc' = [rpc EXCEPT ![t] = "idle"]
          /\ rloc' = [rloc EXCEPT ![t] = NoRouterLocals]
     ELSE /\ IF rloc[t].topic \in DOMAIN topic_queues_
             THEN /\ rloc' = [rloc EXCEPT ![t].queue = topic_queues_[rloc[t].topic]]
                  /\ rpc' = [rpc EXCEPT ![t] = "pm_enqueue"]
             ELSE /\ rpc' = [rpc EXCEPT ![t] = "pm_create"]
                  /\ UNCHANGED rloc
          /\ UNCHANGED rret
  /\ UNCHANGED <<standalone, max_size_, clock, global_msg_id_counter, msgs,
                 config_, running_, should_stop_, next_subscription_id_,
                 subscribers_, topic_queues_, subscribers_mutex_, topic_stats_,
                 worker_threads_, queues, sent, published, subscribed,
                 unsubscribed, dropped, invoked>>

\* getOrCreateQueue, the topic was not found: a new MsgQueue is made and
\* stored as the topic's queue, whatever the map holds by now.
GetOrCreateQueue(t) ==
  /\ rpc[t] \in {"pm_create", "pb_create"}
  /\ queues' = Append(queues, <<>>)
  /\ topic_queues_' = Put(topic_queues_, rloc[t].topic, Len(queues) + 1)
  /\ rloc' = [rloc EXCEPT ![t].queue = Len(queues) + 1]
  /\ rpc' = [rpc EXCEPT ![t] = IF @ = "pm_create" THEN "pm_enqueue" ELSE "pb_enqueue"]
  /\ UNCHANGED <<standalone, max_size_, clock, global_msg_id_counter, msgs,
                 config_, running_, should_stop_, next_subscription_id_,
                 subscribers_, subscribers_mutex_, topic_stats_,
                 worker_threads_, rret, sent, published, subscribed,
                 unsubscribed, dropped, invoked>>

\* queue->enqueue(message) on the queue object the publisher holds: a
\* full queue makes publishMessage return false.
PublishEnqueue(t) ==
  /\ rpc[t] = "pm_enqueue"
  /\ LET q == rloc[t].queue
         m == rloc[t].message IN
     /\ msgs' = Stamp(msgs, queues[q], m, clock)
     /\ IF Full(queues[q])
        THEN /\ rret' = [rret EXCEPT ![t] = Return("publish", FALSE, 0, <<>>)]
             /\ rpc' = [rpc EXCEPT ![t] = "idle"]
             /\ rloc' = [rloc EXCEPT ![t] = NoRouterLocals]
             /\ UNCHANGED <<queues, published>>
        ELSE /\ queues' = [queues EXCEPT ![q] = Push(msgs', queues[q], m)]
             /\ published' = published \cup {m}
             /\ IF config_.enable_statistics
                THEN /\ rpc' = [rpc EXCEPT ![t] = "pm_stats"]
                     /\ UNCHANGED <<rret, rloc>>
                ELSE /\ rret' = [rret EXCEPT ![t] = Return("publish", TRUE, 0, <<>>)]
                     /\ rpc' = [rpc EXCEPT ![t] = "idle"]
                     /\ rloc' = [rloc EXCEPT ![t] = NoRouterLocals]
  /\ UNCHANGED <<standalone, max_size_, clock, global_msg_id_counter, config_,
                 running_, should_stop_, next_subscription_id_, subscribers_,
                 topic_queues_, subscribers_mutex_, topic_stats_,
                 worker_threads_, sent, subscribed, unsubscribed, dropped, invoked>>

\* stats_mutex_ is taken and topic_stats_[topic] looks the topic up. A
\* topic that has an entry is counted at once, its node being changed by
\* atomic operations only: .messages_published.fetch_add(1); return true.
\* A topic without an entry is to be inserted.
PublishStats(t) ==
  /\ rpc[t] = "pm_stats"
  /\ stats_mutex_ = NoThread
  /\ IF rloc[t].topic \in DOMAIN topic_stats_
     THEN /\ topic_stats_' = [topic_stats_ EXCEPT
                                ![rloc[t].topic].messages_published = @ + 1]
          /\ rret' = [rret EXCEPT ![t] = Return("publish", TRUE, 0, <<>>)]
          /\ rpc' = [rpc EXCEPT ![t] = "idle"]
          /\ rloc' = [rloc EXCEPT ![t] = NoRouterLocals]
     ELSE /\ rpc' = [rpc EXCEPT ![t] = "pm_insert"]
          /\ UNCHANGED <<topic_stats_, rret, rloc>>
  /\ UNCHANGED <<standalone, max_size_, clock, global_msg_id_counter, msgs,
                 config_, running_, should_stop_, next_subscription_id_,
                 subscribers_, topic_queues_, subscribers_mutex_,
                 worker_threads_, queues, sent, published, subscribed,
                 unsubscribed, dropped, invoked>>

PublishStatsInsertLocked(t) ==
  /\ rpc[t] = "pm_insert"
  /\ subscribers_mutex_ = NoThread
  /\ \E shadowed \in BOOLEAN :
       LET topic == rloc[t].topic
           entry == IF topic \in DOMAIN topic_stats_ /\ ~shadowed
                    THEN topic_stats_[topic]
                    ELSE TopicStatistics IN
       topic_stats_' = Put(topic_stats_, topic,
                           [entry EXCEPT !.messages_published = @ + 1])
  /\ rret' = [rret EXCEPT ![t] = Return("publish", TRUE, 0, <<>>)]
  /\ rpc' = [rpc EXCEPT ![t] = "idle"]
  /\ rloc' = [rloc EXCEPT ![t] = NoRouterLocals]
  /\ UNCHANGED <<standalone, max_size_, clock, global_msg_id_counter, msgs,
                 config_, running_, should_stop_, next_subscription_id_,
                 subscribers_, topic_queues_, subscribers_mutex_,
                 worker_threads_, queues, sent, published, subscribed,
                 unsubscribed, dropped, invoked>>

\* topic_stats_[topic] inserts a new entry for the topic it did not find;
\* .messages_published.fetch_add(1); stats_mutex_ is released; return
\* true. subscribe inserts into topic_stats_ without stats_mutex_: when it
\* has inserted the topic since the lookup, the two insertions are a data
\* race, after which the topic is found either with the entry of
\* subscribe or with the new one.
PublishStatsInsert(t) ==
  /\ rpc[t] = "pm_insert"
  /\ \E shadowed \in BOOLEAN :
       LET topic == rloc[t].topic
           entry == IF topic \in DOMAIN topic_stats_ /\ ~shadowed
                    THEN topic_stats_[topic]
                    ELSE TopicStatistics IN
       topic_stats_' = Put(topic_stats_, topic,
                           [entry EXCEPT !.messages_published = @ + 1])
  /\ rret' = [rret EXCEPT ![t] = Return("publish", TRUE, 0, <<>>)]
  /\ rpc' = [rpc EXCEPT ![t] = "idle"]
  /\ rloc' = [rloc EXCEPT ![t] = NoRouterLocals]
  /\ UNCHANGED <<standalone, max_size_, clock, global_msg_id_counter, msgs,
                 config_, running_, should_stop_, next_subscription_id_,
                 subscribers_, topic_queues_, subscribers_mutex_,
                 worker_threads_, queues, sent, published, subscribed,
                 unsubscribed, dropped, invoked>>

\* ------------------------------------------------------- publishBatch

\* publishBatch<T>(topic, contents, priority) with n contents: a router
\* that is not running returns 0; otherwise the messages are constructed.
PublishBatchCheck(t, topic, T, n, priority) ==
  /\ rpc[t] = "idle"
  /\ IF ~running_
     THEN /\ rret' = [rret EXCEPT ![t] = Return("publishBatch", FALSE, 0, <<>>)]
          /\ UNCHANGED <<global_msg_id_counter, msgs, rpc, rloc, sent>>
     ELSE /\ global_msg_id_counter + n <= Budget
          /\ global_msg_id_counter' = global_msg_id_counter + n
          /\ msgs' = msgs \o [i \in 1..n |->
                        Msg(T, priority, Payload(global_msg_id_counter + i - 1),
                            global_msg_id_counter + i - 1)]
          /\ sent' = sent \o [i \in 1..n |-> topic]
          /\ rloc' = [rloc EXCEPT ![t] = [NoRouterLocals EXCEPT
                        !.topic = topic,
                        !.messages = [i \in 1..n |-> Len(msgs) + i]]]
          /\ rpc' = [rpc EXCEPT ![t] = "pb_running"]
          /\ UNCHANGED rret
  /\ UNCHANGED <<standalone, max_size_, clock, config_, running_, should_stop_,
                 next_subscription_id_, subscribers_, topic_queues_,
                 subscribers_mutex_, topic_stats_, worker_threads_, queues,
                 published, subscribed, unsubscribed, dropped, invoked>>

\* publishMessageBatch(topic, messages): running_ is read again, then
\* getOrCreateQueue looks the topic up, holding no mutex.
PublishBatchFind(t) ==
  /\ rpc[t] = "pb_running"
  /\ IF ~running_
     THEN /\ rret' = [rret EXCEPT ![t] = Return("publishBatch", FALSE, 0, <<>>)]
          /\ rpc' = [rpc EXCEPT ![t] = "idle"]
          /\ rloc' = [rloc EXCEPT ![t] = NoRouterLocals]
     ELSE /\ IF rloc[t].topic \in DOMAIN topic_queues_
             THEN /\ rloc' = [rloc EXCEPT ![t].queue = topic_queues_[rloc[t].topic]]
                  /\ rpc' = [rpc EXCEPT ![t] = "pb_enqueue"]
             ELSE /\ rpc' = [rpc EXCEPT ![t] = "pb_create"]
                  /\ UNCHANGED rloc
          /\ UNCHANGED rret
  /\ UNCHANGED <<standalone, max_size_, clock, global_msg_id_counter, msgs,
                 config_, running_, should_stop_, next_subscription_id_,
                 subscribers_, topic_queues_, subscribers_mutex_, topic_stats_,
                 worker_threads_, queues, sent, published, subscribed,
                 unsubscribed, dropped, invoked>>

\* The loop of publishMessageBatch: queue->enqueue(message) for the next
\* message; an accepted one is counted.
PublishBatchEnqueue(t) ==
  /\ rpc[t] = "pb_enqueue"
  /\ rloc[t].messages # <<>>
  /\ LET q == rloc[t].queue
         m == Head(rloc[t].messages) IN
     /\ msgs' = Stamp(msgs, queues[q], m, clock)
     /\ IF Full(queues[q])
        THEN /\ rloc' = [rloc EXCEPT ![t].messages = Tail(@)]
             /\ UNCHANGED <<queues, published>>
        ELSE /\ queues' = [queues EXCEPT ![q] = Push(msgs', queues[q], m)]
             /\ published' = published \cup {m}
             /\ rloc' = [rloc EXCEPT ![t].messages = Tail(@),
                                     ![t].published_count = @ + 1]
  /\ UNCHANGED <<standalone, max_size_, clock, global_msg_id_counter, config_,
                 running_, should_stop_, next_subscription_id_, subscribers_,
                 topic_queues_, subscribers_mutex_, topic_stats_,
                 worker_threads_, rpc, rret, sent, subscribed, unsubscribed, dropped,
                 invoked>>

\* After the loop: with statistics enabled and a message accepted,
\* messages_published grows by published_count under stats_mutex_; the
\* count is returned.
PublishBatchReturn(t) ==
  /\ rpc[t] = "pb_enqueue"
  /\ rloc[t].messages = <<>>
  /\ IF config_.enable_statistics /\ rloc[t].published_count > 0
     THEN /\ stats_mutex_ = NoThread
          /\ topic_stats_' = Put(topic_stats_, rloc[t].topic,
                                   [Get(topic_stats_, rloc[t].topic, TopicStatistics)
                                      EXCEPT !.messages_published = @ + rloc[t].published_count])
     ELSE UNCHANGED topic_stats_
  /\ rret' = [rret EXCEPT ![t] = Return("publishBatch", TRUE, rloc[t].published_count, <<>>)]
  /\ rpc' = [rpc EXCEPT ![t] = "idle"]
  /\ rloc' = [rloc EXCEPT ![t] = NoRouterLocals]
  /\ UNCHANGED <<standalone, max_size_, clock, global_msg_id_counter, msgs,
                 config_, running_, should_stop_, next_subscription_id_,
                 subscribers_, topic_queues_, subscribers_mutex_,
                 worker_threads_, queues, sent, published, subscribed,
                 unsubscribed, dropped, invoked>>

\* ---------------------------------------------------------- the workers

\* workerLoop, the loop condition: should_stop_ ends the thread.
WorkerLoop(w) ==
  /\ rpc[w] = "w_loop"
  /\ rpc' = [rpc EXCEPT ![w] = IF should_stop_ THEN "exited" ELSE "w_lock"]
  /\ UNCHANGED <<standalone, max_size_, clock, global_msg_id_counter, msgs,
                 config_, running_, should_stop_, next_subscription_id_,
                 subscribers_, topic_queues_, subscribers_mutex_, topic_stats_,
                 worker_threads_, queues, rloc, rret, sent, published,
                 subscribed, unsubscribed, dropped, invoked>>

WorkerLockFree(w) ==
  /\ rpc[w] = "w_lock"
  /\ rloc' = [rloc EXCEPT ![w] = [NoRouterLocals EXCEPT !.todo = Topics]]
  /\ rpc' = [rpc EXCEPT ![w] = "w_scan"]
  /\ UNCHANGED <<standalone, max_size_, clock, global_msg_id_counter, msgs,
                 config_, running_, should_stop_, next_subscription_id_,
                 subscribers_, topic_queues_, subscribers_mutex_, topic_stats_,
                 worker_threads_, queues, rret, sent, published, subscribed,
                 unsubscribed, dropped, invoked>>

\* The scan begins: subscribers_mutex_ is taken and the iteration over
\* topic_queues_ starts.
WorkerLock(w) ==
  /\ rpc[w] = "w_lock"
  /\ subscribers_mutex_ = NoThread
  /\ subscribers_mutex_' = w
  /\ rloc' = [rloc EXCEPT ![w] = [NoRouterLocals EXCEPT !.todo = Topics]]
  /\ rpc' = [rpc EXCEPT ![w] = "w_scan"]
  /\ UNCHANGED <<standalone, max_size_, clock, global_msg_id_counter, msgs,
                 config_, running_, should_stop_, next_subscription_id_,
                 subscribers_, topic_queues_, topic_stats_, worker_threads_,
                 queues, rret, sent, published, subscribed, unsubscribed, dropped,
                 invoked>>

WorkerVisitSkip(w, topic) ==
  /\ rpc[w] = "w_scan"
  /\ topic \in rloc[w].todo
  /\ rloc' = [rloc EXCEPT ![w].todo = @ \ {topic}]
  /\ UNCHANGED <<standalone, max_size_, clock, global_msg_id_counter, msgs,
                 config_, running_, should_stop_, next_subscription_id_,
                 subscribers_, topic_queues_, subscribers_mutex_, topic_stats_,
                 worker_threads_, queues, rpc, rret, sent, published,
                 subscribed, unsubscribed, dropped, invoked>>

\* The iteration comes to a topic, in whatever order the map has: a topic
\* that has a queue by now, which is not empty, is processed.
WorkerVisit(w, topic) ==
  /\ rpc[w] = "w_scan"
  /\ topic \in rloc[w].todo
  /\ IF topic \in DOMAIN topic_queues_ /\ queues[topic_queues_[topic]] # <<>>
     THEN /\ rloc' = [rloc EXCEPT ![w].todo = @ \ {topic},
                                  ![w].topic = topic,
                                  ![w].queue = topic_queues_[topic],
                                  ![w].processed_count = 0,
                                  ![w].processed_any = TRUE]
          /\ rpc' = [rpc EXCEPT ![w] = "w_process"]
     ELSE /\ rloc' = [rloc EXCEPT ![w].todo = @ \ {topic}]
          /\ UNCHANGED rpc
  /\ UNCHANGED <<standalone, max_size_, clock, global_msg_id_counter, msgs,
                 config_, running_, should_stop_, next_subscription_id_,
                 subscribers_, topic_queues_, subscribers_mutex_, topic_stats_,
                 worker_threads_, queues, rret, sent, published, subscribed,
                 unsubscribed, dropped, invoked>>

\* The scan ends: the mutex is released (and the thread sleeps a
\* millisecond when nothing was processed).
WorkerUnlock(w) ==
  /\ rpc[w] = "w_scan"
  /\ rloc[w].todo = {}
  /\ subscribers_mutex_' = NoThread
  /\ rloc' = [rloc EXCEPT ![w] = NoRouterLocals]
  /\ rpc' = [rpc EXCEPT ![w] = "w_loop"]
  /\ UNCHANGED <<standalone, max_size_, clock, global_msg_id_counter, msgs,
                 config_, running_, should_stop_, next_subscription_id_,
                 subscribers_, topic_queues_, topic_stats_, worker_threads_,
                 queues, rret, sent, published, subscribed, unsubscribed, dropped,
                 invoked>>

\* processTopicQueue, the loop condition and the dequeue: while fewer than
\* max_batch messages are processed and the queue is not empty, the top
\* message is taken and the topic's subscribers looked up.
WorkerDequeueNoCap(w) ==
  /\ rpc[w] = "w_process"
  /\ LET q == rloc[w].queue IN
     IF queues[q] # <<>>
     THEN /\ queues' = [queues EXCEPT ![q] = Pop(msgs, queues[q])]
          /\ rloc' = [rloc EXCEPT ![w].message = Top(queues[q]),
                                  ![w].subs = Get(subscribers_, rloc[w].topic, <<>>)]
          /\ rpc' = [rpc EXCEPT ![w] = "w_deliver"]
     ELSE /\ rpc' = [rpc EXCEPT ![w] =
                       IF config_.enable_statistics /\ rloc[w].processed_count > 0
                       THEN "w_stats" ELSE "w_scan"]
          /\ UNCHANGED <<queues, rloc>>
  /\ UNCHANGED <<standalone, max_size_, clock, global_msg_id_counter, msgs,
                 config_, running_, should_stop_, next_subscription_id_,
                 subscribers_, topic_queues_, subscribers_mutex_, topic_stats_,
                 worker_threads_, rret, sent, published, subscribed,
                 unsubscribed, dropped, invoked>>

WorkerDequeue(w) ==
  /\ rpc[w] = "w_process"
  /\ LET q == rloc[w].queue IN
     IF rloc[w].processed_count < max_batch /\ queues[q] # <<>>
     THEN /\ queues' = [queues EXCEPT ![q] = Pop(msgs, queues[q])]
          /\ rloc' = [rloc EXCEPT ![w].message = Top(queues[q]),
                                  ![w].subs = Get(subscribers_, rloc[w].topic, <<>>)]
          /\ rpc' = [rpc EXCEPT ![w] = "w_deliver"]
     ELSE /\ rpc' = [rpc EXCEPT ![w] =
                       IF config_.enable_statistics /\ rloc[w].processed_count > 0
                       THEN "w_stats" ELSE "w_scan"]
          /\ UNCHANGED <<queues, rloc>>
  /\ UNCHANGED <<standalone, max_size_, clock, global_msg_id_counter, msgs,
                 config_, running_, should_stop_, next_subscription_id_,
                 subscribers_, topic_queues_, subscribers_mutex_, topic_stats_,
                 worker_threads_, rret, sent, published, subscribed,
                 unsubscribed, dropped, invoked>>

WorkerCallAbort(w) ==
  /\ rpc[w] = "w_callback"
  /\ rloc' = [rloc EXCEPT ![w].call_result = FALSE,
                          ![w].subs = IF Head(@).second.raises THEN <<>> ELSE Tail(@)]
  /\ rpc' = [rpc EXCEPT ![w] = "w_deliver"]
  /\ UNCHANGED <<standalone, max_size_, clock, global_msg_id_counter, msgs,
                 config_, running_, should_stop_, next_subscription_id_,
                 subscribers_, topic_queues_, subscribers_mutex_, topic_stats_,
                 worker_threads_, queues, rret, sent, published, subscribed,
                 unsubscribed, dropped, invoked>>

WorkerCallUnlocked(w) ==
  /\ rpc[w] = "w_deliver"
  /\ subscribers_mutex_' = NoThread
  /\ IF rloc[w].subs = <<>>
     THEN /\ rloc' = [rloc EXCEPT ![w].processed_count = @ + 1,
                                  ![w].message = NullMsg]
          /\ rpc' = [rpc EXCEPT ![w] = "w_process"]
          /\ UNCHANGED invoked
     ELSE LET subscriber_entry == Head(rloc[w].subs) IN
          IF Call(subscriber_entry.second, msgs, rloc[w].message).invoked
          THEN /\ invoked' = Append(invoked, [sub |-> subscriber_entry.first,
                                              msg |-> rloc[w].message,
                                              topic |-> rloc[w].topic])
               /\ rpc' = [rpc EXCEPT ![w] = "w_callback"]
               /\ UNCHANGED rloc
          ELSE /\ rloc' = [rloc EXCEPT ![w].call_result = FALSE,
                                       ![w].subs = Tail(@)]
               /\ UNCHANGED <<rpc, invoked>>
  /\ UNCHANGED <<standalone, max_size_, clock, global_msg_id_counter, msgs,
                 config_, running_, should_stop_, next_subscription_id_,
                 subscribers_, topic_queues_, topic_stats_,
                 worker_threads_, queues, rret, sent, published, subscribed,
                 unsubscribed, dropped>>

\* The delivery loop: callback->call(message) for the next subscriber of
\* the list; a message of the callback's type enters the user callback.
\* After the last subscriber the message is counted.
WorkerCall(w) ==
  /\ rpc[w] = "w_deliver"
  /\ IF rloc[w].subs = <<>>
     THEN /\ rloc' = [rloc EXCEPT ![w].processed_count = @ + 1,
                                  ![w].message = NullMsg]
          /\ rpc' = [rpc EXCEPT ![w] = "w_process"]
          /\ UNCHANGED invoked
     ELSE LET subscriber_entry == Head(rloc[w].subs) IN
          IF Call(subscriber_entry.second, msgs, rloc[w].message).invoked
          THEN /\ invoked' = Append(invoked, [sub |-> subscriber_entry.first,
                                              msg |-> rloc[w].message,
                                              topic |-> rloc[w].topic])
               /\ rpc' = [rpc EXCEPT ![w] = "w_callback"]
               /\ UNCHANGED rloc
          ELSE /\ rloc' = [rloc EXCEPT ![w].call_result = FALSE,
                                       ![w].subs = Tail(@)]
               /\ UNCHANGED <<rpc, invoked>>
  /\ UNCHANGED <<standalone, max_size_, clock, global_msg_id_counter, msgs,
                 config_, running_, should_stop_, next_subscription_id_,
                 subscribers_, topic_queues_, subscribers_mutex_, topic_stats_,
                 worker_threads_, queues, rret, sent, published, subscribed,
                 unsubscribed, dropped>>

\* The user callback returns or raises: call catches whatever is raised
\* and returns false, and the loop goes on to the next subscriber.
WorkerCallReturn(w) ==
  /\ rpc[w] = "w_callback"
  /\ rloc' = [rloc EXCEPT
                ![w].call_result = Call(Head(rloc[w].subs).second, msgs,
                                        rloc[w].message).result,
                ![w].subs = Tail(@)]
  /\ rpc' = [rpc EXCEPT ![w] = "w_deliver"]
  /\ UNCHANGED <<standalone, max_size_, clock, global_msg_id_counter, msgs,
                 config_, running_, should_stop_, next_subscription_id_,
                 subscribers_, topic_queues_, subscribers_mutex_, topic_stats_,
                 worker_threads_, queues, rret, sent, published, subscribed,
                 unsubscribed, dropped, invoked>>

\* The statistics of processTopicQueue: under stats_mutex_ the measured
\* duration is added to total_processing_time_us and processed_count to
\* messages_processed.
WorkerStats(w, duration) ==
  /\ rpc[w] = "w_stats"
  /\ stats_mutex_ = NoThread
  /\ topic_stats_' = Put(topic_stats_, rloc[w].topic,
                         [Get(topic_stats_, rloc[w].topic, TopicStatistics)
                            EXCEPT !.total_processing_time_us = @ + duration,
                                   !.messages_processed = @ + rloc[w].processed_count])
  /\ rpc' = [rpc EXCEPT ![w] = "w_scan"]
  /\ UNCHANGED <<standalone, max_size_, clock, global_msg_id_counter, msgs,
                 config_, running_, should_stop_, next_subscription_id_,
                 subscribers_, topic_queues_, subscribers_mutex_,
                 worker_threads_, queues, rloc, rret, sent, published,
                 subscribed, unsubscribed, dropped, invoked>>

\* ------------------------------------------------- the specifications

\* A call of enqueue, from its first step to its return.
Enqueue(t) ==
  \/ EnqueueNull(t)
  \/ \E m \in Fresh : EnqueueLock(t, m)
  \/ EnqueueCur(t)
  \/ EnqueuePeakLoad(t)
  \/ EnqueuePeakCas(t)

\* A call of enqueue_batch.
EnqueueBatch(t) ==
  \/ EnqueueBatchEmpty(t)
  \/ \E b \in Batches : EnqueueBatchLock(t, b)
  \/ EnqueueBatchCur(t)
  \/ EnqueueBatchPeakLoad(t)
  \/ EnqueueBatchPeakCas(t)

\* A call of dequeue.
Dequeue(t) == DequeueLock(t) \/ DequeueCur(t)

\* A call of dequeue_batch.
DequeueBatch(t) ==
  \/ \E n \in 0..MaxCount : DequeueBatchLock(t, n)
  \/ DequeueBatchCur(t)

\* A call of dequeue_block, but for what the condition variable does to
\* the waiter by itself.
DequeueBlockRun(t) ==
  \/ DequeueBlockWoken(t)
  \/ \E wait_time \in 0..MaxWait : DequeueBlockPop(t, wait_time)
  \/ DequeueBlockCur(t)
  \/ DequeueBlockWaitTime(t)
  \/ DequeueBlockWaitCount(t)

\* A call of dequeue_block with either kind of timeout.
DequeueBlock(t) ==
  \/ \E infinite \in BOOLEAN : DequeueBlockLock(t, infinite)
  \/ DequeueBlockTimeout(t)
  \/ DequeueBlockSpurious(t)
  \/ DequeueBlockRun(t)

\* A call of resetStatistics.
ResetStatistics(t) ==
  \/ ResetEnqueued(t)
  \/ ResetDequeued(t)
  \/ ResetLoadCurrent(t)
  \/ ResetStorePeak(t)
  \/ ResetWaitTime(t)
  \/ ResetWaitCount(t)

\* A call of getStatistics.
GetStatistics(t) ==
  \/ GetEnqueued(t)
  \/ GetDequeued(t)
  \/ GetCurrent(t)
  \/ GetPeak(t)
  \/ GetWaitTime(t)
  \/ GetWaitCount(t)

\* A producer enqueues, singly and in batches, while a consumer dequeues,
\* singly and in batches, without blocking.
Next ==
  \/ Tick
  \/ Enqueue(Producer)
  \/ EnqueueBatch(Producer)
  \/ Dequeue(Consumer)
  \/ DequeueBatch(Consumer)
  \/ \E t \in {Producer, Consumer} : Resume(t)

SpecMixed == InitAlternating /\ [][Next]_vars

\* A producer enqueues singly while a consumer dequeues, singly and in
\* batches, without blocking.
NextPoll ==
  \/ Tick
  \/ Enqueue(Producer)
  \/ Dequeue(Consumer)
  \/ DequeueBatch(Consumer)
  \/ \E t \in {Producer, Consumer} : Resume(t)

Spec == Init /\ [][NextPoll]_vars

\* A producer enqueues in batches while a consumer dequeues singly.
NextBatch ==
  \/ Tick
  \/ EnqueueBatch(Producer)
  \/ Dequeue(Consumer)
  \/ \E t \in {Producer, Consumer} : Resume(t)

SpecBatch == Init /\ [][NextBatch]_vars

\* A producer enqueues while a consumer dequeues, blocking or not.
NextBlock ==
  \/ Tick
  \/ Enqueue(Producer)
  \/ Dequeue(Consumer)
  \/ DequeueBlock(Consumer)
  \/ \E t \in {Producer, Consumer} : Resume(t)

SpecBlock == InitAlternating /\ [][NextBlock]_vars

\* A producer enqueues while one consumer blocks for messages and another
\* polls for them.
NextRace ==
  \/ Enqueue(Producer)
  \/ DequeueBlock("consumer")
  \/ Dequeue("consumer2")
  \/ \E t \in AllThreads : Resume(t)

SpecRace == InitAlternating /\ [][NextRace]_vars

\* A producer enqueues while a consumer dequeues and resets the
\* statistics, which takes no lock.
NextStats ==
  \/ Enqueue(Producer)
  \/ Dequeue(Consumer)
  \/ ResetStatistics(Consumer)
  \/ \E t \in {Producer, Consumer} : Resume(t)

SpecStats == InitAlternating /\ [][NextStats]_vars

\* A producer enqueues and a consumer dequeues while a third thread takes
\* copies of the statistics; nothing clears the queue or resets them.
NextSnapshot ==
  \/ Enqueue(Producer)
  \/ Dequeue(Consumer)
  \/ GetStatistics("consumer2")
  \/ \E t \in AllThreads : Resume(t)

SpecSnapshot == InitAlternating /\ [][NextSnapshot]_vars

\* A producer enqueues and a consumer dequeues while a third thread
\* clears the queue.
NextClear ==
  \/ Enqueue(Producer)
  \/ Dequeue(Consumer)
  \/ Clear("consumer2")
  \/ \E t \in {Producer, Consumer} : Resume(t)

SpecClear == InitAlternating /\ [][NextClear]_vars

\* The steps a call of enqueue takes once it holds the mutex.
EnqueueRun(t) == EnqueueCur(t) \/ EnqueuePeakLoad(t) \/ EnqueuePeakCas(t)

\* Two consumers call dequeue_block with the infinite timeout on the empty
\* queue, once each, and keep what they are handed; a producer enqueues.
NextWake ==
  \/ Enqueue(Producer)
  \/ Resume(Producer)
  \/ \E t \in Consumers : accepted = <<>> /\ DequeueBlockLock(t, TRUE)
  \/ \E t \in Consumers : DequeueBlockSpurious(t)
  \/ \E t \in Consumers : DequeueBlockRun(t)

\* A thread that can run does run: a started enqueue goes on to its
\* return, and a woken or unblocked consumer goes on whenever the mutex is
\* free.  Nothing obliges the condition variable to wake a waiter nobody
\* notified.
SpecWake ==
  /\ InitAlternating
  /\ [][NextWake]_vars
  /\ WF_vars(EnqueueRun(Producer))
  /\ \A t \in Consumers : WF_vars(DequeueBlockRun(t))

\* A call of publish after its first step, to its return.
PublishRun(t) ==
  \/ PublishMessageFind(t)
  \/ GetOrCreateQueue(t)
  \/ PublishEnqueue(t)
  \/ PublishStats(t)
  \/ PublishStatsInsert(t)

\* A worker thread: workerLoop and processTopicQueue.
Worker(w) ==
  \/ WorkerLoop(w)
  \/ WorkerLock(w)
  \/ \E topic \in Topics : WorkerVisit(w, topic)
  \/ WorkerUnlock(w)
  \/ WorkerDequeue(w)
  \/ WorkerCall(w)
  \/ WorkerCallReturn(w)
  \/ \E duration \in 0..MaxWait : WorkerStats(w, duration)

\* The routers with one worker thread.
InitOneWorker == InitRouter /\ config_.worker_thread_count = 1

\* Dispatch by type: on one topic a client subscribes callbacks of either
\* type, which return or raise, and a publisher publishes messages of
\* either type; one worker delivers.
NextDispatch ==
  \/ Start(Client)
  \/ \E T \in Types, raises \in BOOLEAN : Subscribe(Client, "A", T, raises)
  \/ \E T \in Types : PublishCheck("publisher", "A", T, 0)
  \/ PublishRun("publisher")
  \/ Worker("worker")

SpecDispatch == InitOneWorker /\ [][NextDispatch]_vars

\* Fan-out: a client subscribes callbacks of one type to one topic, then
\* a publisher publishes to it; one worker or two deliver. Every thread
\* that can take a step is scheduled in the end: the publisher inside a
\* call, and each worker, which waits for the mutex only while another
\* thread is inside its critical section.
NextFanOut ==
  \/ Start(Client)
  \/ \E raises \in BOOLEAN :
       global_msg_id_counter = 0 /\ Subscribe(Client, "A", "int", raises)
  \/ PublishCheck("publisher", "A", "int", 0)
  \/ PublishRun("publisher")
  \/ \E w \in Workers : Worker(w)

SpecFanOut ==
  /\ InitRouter
  /\ [][NextFanOut]_vars
  /\ WF_vars(PublishRun("publisher"))
  /\ \A w \in Workers : WF_vars(Worker(w))

\* Several topics: a client subscribes callbacks to either topic at any
\* time, a publisher publishes to either topic, one worker delivers.
NextTopics ==
  \/ Start(Client)
  \/ \E topic \in Topics : Subscribe(Client, topic, "int", FALSE)
  \/ \E topic \in Topics : PublishCheck("publisher", topic, "int", 0)
  \/ PublishRun("publisher")
  \/ Worker("worker")

SpecTopics == InitOneWorker /\ [][NextTopics]_vars

\* Concurrent publishers: a client subscribes callbacks to one topic, then
\* two publishers publish to it, also both for the first time; one worker
\* delivers. Scheduling is fair to each publisher inside a call and to the
\* worker.
NextPublishers ==
  \/ Start(Client)
  \/ global_msg_id_counter = 0 /\ Subscribe(Client, "A", "int", FALSE)
  \/ \E p \in Publishers : PublishCheck(p, "A", "int", 0)
  \/ \E p \in Publishers : PublishRun(p)
  \/ Worker("worker")

SpecPublishers ==
  /\ InitOneWorker
  /\ [][NextPublishers]_vars
  /\ \A p \in Publishers : WF_vars(PublishRun(p))
  /\ WF_vars(Worker("worker"))

\* The life cycle: a client starts and stops the router, any number of
\* times, and subscribes callbacks, while a publisher calls publish and
\* publishBatch on one topic and the worker delivers.
Stop(t) ==
  \/ StopSignal(t)
  \/ StopRunning(t)
  \/ StopJoin(t)

PublishBatchRun(t) ==
  \/ PublishBatchFind(t)
  \/ PublishBatchEnqueue(t)
  \/ PublishBatchReturn(t)

NextLifecycle ==
  \/ Start(Client)
  \/ Stop(Client)
  \/ Subscribe(Client, "A", "int", FALSE)
  \/ PublishCheck("publisher", "A", "int", 0)
  \/ PublishRun("publisher")
  \/ \E n \in 0..MaxPublish : PublishBatchCheck("publisher", "A", "int", n, 0)
  \/ PublishBatchRun("publisher")
  \/ Worker("worker")

SpecLifecycle == InitOneWorker /\ [][NextLifecycle]_vars

\* Subscriptions come and go: two threads subscribe callbacks to either
\* topic, a client unsubscribes any id from either topic and clears the
\* router, while a publisher publishes one message to one topic and the
\* worker delivers.
NextSubscriptions ==
  \/ Start(Client)
  \/ \E t \in {Client, "publisher2"}, topic \in Topics :
       Subscribe(t, topic, "int", FALSE)
  \/ \E topic \in Topics, subscription_id \in 1..MaxSubs :
       Unsubscribe(Client, topic, subscription_id)
  \/ RouterClear(Client)
  \/ global_msg_id_counter = 0 /\ PublishCheck("publisher", "A", "int", 0)
  \/ PublishRun("publisher")
  \/ Worker("worker")

SpecSubscriptions == InitOneWorker /\ [][NextSubscriptions]_vars

\* Subscriptions of one topic come and go: a client subscribes callbacks to
\* the topic, unsubscribes any id from it and clears the router, while a
\* publisher publishes to the topic and the worker delivers.
NextTurnover ==
  \/ Start(Client)
  \/ Subscribe(Client, "A", "int", FALSE)
  \/ \E subscription_id \in 1..MaxSubs : Unsubscribe(Client, "A", subscription_id)
  \/ RouterClear(Client)
  \/ PublishCheck("publisher", "A", "int", 0)
  \/ PublishRun("publisher")
  \/ Worker("worker")

SpecTurnover == InitOneWorker /\ [][NextTurnover]_vars

\* A second thread calls start() while the client's stop() may be in
\* progress; a callback is subscribed, a message published, one worker
\* delivers. Scheduling is fair to the thread inside stop() and to the
\* worker, whose callbacks return.
NextStopRace ==
  \/ \E t \in {Client, "publisher2"} : Start(t)
  \/ Stop(Client)
  \/ next_subscription_id_ = 1 /\ Subscribe(Client, "A", "int", FALSE)
  \/ global_msg_id_counter = 0 /\ PublishCheck("publisher", "A", "int", 0)
  \/ PublishRun("publisher")
  \/ Worker("worker")

SpecStopRace ==
  /\ InitOneWorker
  /\ [][NextStopRace]_vars
  /\ WF_vars(Stop(Client))
  /\ WF_vars(Worker("worker"))

\* Priorities: a client subscribes callbacks to one topic, then a
\* publisher publishes to it with either priority; one worker or two
\* deliver.
NextOrder ==
  \/ Start(Client)
  \/ global_msg_id_counter = 0 /\ Subscribe(Client, "A", "int", FALSE)
  \/ \E priority \in Priorities : PublishCheck("publisher", "A", "int", priority)
  \/ PublishRun("publisher")
  \/ \E w \in Workers : Worker(w)

SpecOrder == InitRouter /\ [][NextOrder]_vars

\* A backlog: the queues of the router hold a Backlog; a client subscribes
\* one callback, a publisher calls publishBatch with a Backlog of
\* contents, one worker delivers.
InitBacklog ==
  /\ \E enable_statistics \in BOOLEAN :
       PubSubSystem([default_queue_size |-> Backlog, worker_thread_count |-> 1,
                     enable_statistics |-> enable_statistics])
  /\ global_msg_id_counter = 0
  /\ msgs = <<>>
  /\ msg_queue_ = <<>>
  /\ max_size_ = config_.default_queue_size
  /\ mtx_ = NoThread
  /\ stats_ = Statistics
  /\ clock = 0
  /\ pc = [t \in AllThreads |-> "idle"]
  /\ loc = [t \in AllThreads |-> NoLocals]
  /\ ret = [t \in AllThreads |-> NoReturn]
  /\ accepted = <<>>
  /\ removed = <<>>
  /\ cleared = FALSE
  /\ reset_done = FALSE
  /\ peak_hist = 0

NextBacklog ==
  \/ Start(Client)
  \/ next_subscription_id_ = 1 /\ Subscribe(Client, "A", "int", FALSE)
  \/ PublishBatchCheck("publisher", "A", "int", Backlog, 0)
  \/ GetOrCreateQueue("publisher")
  \/ PublishBatchRun("publisher")
  \/ Worker("worker")

SpecBacklog == InitBacklog /\ [][NextBacklog]_vars

\* Starting and stopping: a client starts and stops a router of one or
\* two worker threads, any number of times, one call after the other, and
\* subscribes callbacks, while a publisher publishes and the workers
\* deliver.
NextStartStop ==
  \/ Start(Client)
  \/ Stop(Client)
  \/ Subscribe(Client, "A", "int", FALSE)
  \/ PublishCheck("publisher", "A", "int", 0)
  \/ PublishRun("publisher")
  \/ \E w \in Workers : Worker(w)

SpecStartStop == InitRouter /\ [][NextStartStop]_vars

\* ------------------------------------------------------------ the claims

\* The messages stored in a heap array, handed out, accepted.
Stored(s) == Range(s)
RemovedMsgs == {removed[i].msg : i \in 1..Len(removed)}
AcceptedMsgs == {accepted[i].msg : i \in 1..Len(accepted)}

\* No call of the queue is in progress.
Quiescent == \A t \in AllThreads : pc[t] \in {"idle", "done"}

\* The total order of the data model: a ranks before b.
RanksBefore(a, b) ==
  \/ a.priority > b.priority
  \/ a.priority = b.priority /\ a.timestamp < b.timestamp
  \/ a.priority = b.priority /\ a.timestamp = b.timestamp /\ a.msg_id_ < b.msg_id_

\* The place of message m in a history, 0 when it is not there.
Place(h, m) ==
  IF \E i \in 1..Len(h) : h[i].msg = m
  THEN CHOOSE i \in 1..Len(h) : h[i].msg = m
  ELSE 0

\* C1: every message a dequeue, dequeue_batch (or dequeue_block) hands out
\* was stored and has a priority at least that of every message that stays
\* stored, and of every message the same call hands out after it; so a
\* drain yields non-increasing priorities.
C1_PriorityOrder ==
  [][\A i \in (Len(removed) + 1)..Len(removed') :
       /\ removed'[i].msg \in Stored(msg_queue_)
       /\ removed'[i].msg \notin Stored(msg_queue_')
       /\ \A m \in Stored(msg_queue_') : removed'[i].priority >= msgs[m].priority
       /\ \A j \in (i + 1)..Len(removed') :
            removed'[i].priority >= removed'[j].priority]_vars

\* C1's case: three messages enqueued with priorities low, high, low were
\* stored together and drained high first.
C1_Witness ==
  /\ Len(removed) = 3
  /\ stats_.peak_size = 3
  /\ accepted[1].priority < accepted[2].priority
  /\ accepted[3].priority < accepted[2].priority
  /\ removed[1].msg = accepted[2].msg
  /\ empty

\* C2: messages of equal priority accepted by single enqueue calls leave
\* the queue in the order in which their enqueue calls took the lock.
C2_FifoByLockOrder ==
  \A i, j \in 1..Len(accepted) :
    ( /\ i < j
      /\ accepted[i].how = "enqueue"
      /\ accepted[j].how = "enqueue"
      /\ accepted[i].priority = accepted[j].priority
      /\ accepted[j].msg \in RemovedMsgs )
    => /\ accepted[i].msg \in RemovedMsgs
       /\ Place(removed, accepted[i].msg) < Place(removed, accepted[j].msg)

\* A step in which thread t's call of enqueue takes effect or is refused.
EnqueueDecided(t) ==
  /\ pc[t] = "idle"
  /\ \/ pc'[t] = "enq_cur"
     \/ pc'[t] = "done" /\ ret'[t].op = "enqueue"

\* A step in which thread t's call of enqueue returns false.
EnqueueRejected(t) ==
  pc[t] = "idle" /\ pc'[t] = "done" /\ ret'[t].op = "enqueue" /\ ~ret'[t].ok

C4_RejectChangesNothing ==
  [][\A t \in AllThreads :
       EnqueueRejected(t)
       => /\ msg_queue_' = msg_queue_
          /\ size' = size
          /\ stats_' = stats_
          /\ msgs' = msgs]_vars

\* C4's case: a full queue refused a message when the clock had advanced,
\* and the message still carries the timestamp of its construction.
C4_Witness ==
  /\ pc[Producer] = "done"
  /\ ret[Producer].op = "enqueue"
  /\ ~ret[Producer].ok
  /\ ret[Producer].msgs # <<NullMsg>>
  /\ clock > 0
  /\ msgs[ret[Producer].msgs[1]].timestamp = 0
  /\ size = max_size_

\* The dequeue calls that hand out one message.
DequeueOps == {"dequeue", "dequeue_block"}

\* C5: every message handed out by dequeue or dequeue_block was accepted
\* by an enqueue and carries the priority and payload it was accepted
\* with; no message is handed out twice; every accepted message is stored
\* or handed out, so that a drained queue has handed out exactly the
\* accepted messages.
C5_NoLossNoDuplication ==
  /\ \A i \in 1..Len(removed) :
       /\ Place(accepted, removed[i].msg) > 0
       /\ accepted[Place(accepted, removed[i].msg)].priority = removed[i].priority
       /\ accepted[Place(accepted, removed[i].msg)].content = removed[i].content
       /\ removed[i].content = Payload(removed[i].msg - 1)
  /\ \A i, j \in 1..Len(removed) : removed[i].msg = removed[j].msg => i = j
  /\ \A i, j \in 1..Len(msg_queue_) : msg_queue_[i] = msg_queue_[j] => i = j
  /\ AcceptedMsgs = RemovedMsgs \cup Stored(msg_queue_)
  /\ RemovedMsgs \cap Stored(msg_queue_) = {}
  /\ empty => Len(removed) = Len(accepted)
  /\ \A t \in AllThreads :
       (pc[t] = "done" /\ ret[t].op \in DequeueOps /\ ret[t].ok)
       => /\ Len(ret[t].msgs) = 1
          /\ ret[t].msgs[1] \in RemovedMsgs
          /\ \A u \in AllThreads \ {t} :
               (pc[u] = "done" /\ ret[u].op \in DequeueOps /\ ret[u].ok)
               => ret[u].msgs # ret[t].msgs

\* C5's case: three messages were accepted and the queue is drained, and
\* the two consumers hold the results of their dequeue_block and dequeue.
C5_Witness ==
  /\ Len(accepted) = 3
  /\ Len(removed) = 3
  /\ empty
  /\ \A t \in Consumers : pc[t] = "done" /\ ret[t].ok
  /\ ret["consumer"].op = "dequeue_block"
  /\ ret["consumer2"].op = "dequeue"

C7_PeakIsHistoricalMax ==
  Quiescent
  => /\ stats_.peak_size = peak_hist
     /\ stats_.peak_size >= stats_.current_size

\* A step in which thread t's call of dequeue_block returns nullptr.
DequeueBlockNull(t) ==
  pc[t] # "done" /\ pc'[t] = "done" /\ ret'[t].op = "dequeue_block" /\ ~ret'[t].ok

\* A step in which thread t's call of dequeue_block removes its result.
DequeueBlockTakes(t) == pc[t] = "db_pop" /\ pc'[t] = "db_cur"

\* C8: dequeue_block returns nullptr only from a call with a finite
\* timeout, when that timeout has elapsed and the queue is empty; the
\* message any call removes was stored and ranks before every other stored
\* message, the queue loses exactly that message, and it is the message
\* the call returns.
C8_NullOnlyOnTimeout ==
  [][\A t \in AllThreads :
       /\ DequeueBlockNull(t)
          => (~loc[t].infinite /\ loc[t].timed_out /\ empty)
       /\ DequeueBlockTakes(t)
          => /\ Len(loc'[t].result) = 1
             /\ loc'[t].result[1] \in Stored(msg_queue_)
             /\ \A x \in Stored(msg_queue_) \ {loc'[t].result[1]} :
                  RanksBefore(msgs[loc'[t].result[1]], msgs[x])
             /\ Stored(msg_queue_') = Stored(msg_queue_) \ {loc'[t].result[1]}
             /\ size' = size - 1
       /\ (pc[t] = "db_count" /\ pc'[t] = "done")
          => /\ ret'[t].ok
             /\ ret'[t].msgs = loc[t].result
             /\ ret'[t].msgs[1] # NullMsg]_vars

\* C8's case: a dequeue_block with a finite timeout has returned nullptr
\* from the empty queue, after an earlier dequeue_block had waited and
\* returned a message.
C8_Witness ==
  /\ pc[Consumer] = "done"
  /\ ret[Consumer].op = "dequeue_block"
  /\ ~ret[Consumer].ok
  /\ empty
  /\ stats_.wait_count > 0
  /\ Len(removed) > 0

\* Both consumers have called dequeue_block, which they do on the empty
\* queue only, and as many enqueue calls as there are consumers have been
\* accepted.
AllBlockedAndFed ==
  /\ \A t \in Consumers : pc[t] # "idle"
  /\ Len(accepted) >= Cardinality(Consumers)

\* Every consumer's dequeue_block has returned a message, no two the same.
AllServed ==
  /\ \A t \in Consumers :
       pc[t] = "done" /\ ret[t].op = "dequeue_block" /\ ret[t].ok
  /\ \A t, u \in Consumers : t # u => ret[t].msgs # ret[u].msgs

\* C9: when the consumers are blocked in dequeue_block with the infinite
\* timeout and as many enqueue calls succeed, every consumer eventually
\* returns a message, each a different one, though an enqueue notifies one
\* waiter only.
C9_NoLostWakeup == AllBlockedAndFed ~> AllServed

\* C9's case: both consumers blocked on the empty queue, two enqueues were
\* accepted, and each consumer has returned its message.
C9_Witness ==
  /\ AllServed
  /\ stats_.wait_count = Cardinality(Consumers)
  /\ stats_.total_enqueued >= Cardinality(Consumers)

\* The entry counts k for which the first k entries of b hold no null and
\* fit into room places.
PrefixFits(b, room) ==
  {k \in 0..Len(b) : k <= room /\ \A i \in 1..k : b[i] # NullMsg}

\* The length of the longest such prefix.
LongestPrefix(b, room) ==
  CHOOSE k \in PrefixFits(b, room) : \A j \in PrefixFits(b, room) : j <= k

\* A step in which thread t's call of enqueue_batch takes effect.
EnqueueBatchDecided(t) ==
  /\ pc[t] = "idle"
  /\ \/ pc'[t] = "eb_cur"
     \/ pc'[t] = "done" /\ ret'[t].op = "enqueue_batch"

\* The vector of that call, and the count it settles on.
BatchOf(t) == IF pc'[t] = "eb_cur" THEN loc'[t].messages ELSE ret'[t].msgs
CountOf(t) == IF pc'[t] = "eb_cur" THEN loc'[t].enqueued_count ELSE ret'[t].n

\* C10: enqueue_batch accepts the longest prefix of its vector that holds
\* no null entry and fits the remaining capacity: the count it returns is
\* that prefix's length, exactly the prefix's messages are added to the
\* queue, none of the later entries is, and total_enqueued and
\* current_size grow by the count.
C10_BatchLongestPrefix ==
  [][\A t \in AllThreads :
       /\ EnqueueBatchDecided(t)
          => LET b == BatchOf(t)
                 k == LongestPrefix(b, max_size_ - size) IN
             /\ CountOf(t) = k
             /\ Stored(msg_queue_') = Stored(msg_queue_) \cup {b[i] : i \in 1..k}
             /\ \A i \in (k + 1)..Len(b) : b[i] \notin Stored(msg_queue_')
             /\ size' = size + k
             /\ stats_'.total_enqueued = stats_.total_enqueued + k
       /\ (pc[t] = "eb_cur" /\ pc'[t] = "eb_load")
          => stats_'.current_size = stats_.current_size + loc[t].enqueued_count
       /\ (pc[t] = "eb_cas" /\ pc'[t] = "done")
          => ret'[t].n = loc[t].enqueued_count]_vars

\* C10's case: of a vector of a message, a null and another message, the
\* first message alone was accepted though the queue has room for more.
C10_Witness ==
  /\ pc[Producer] = "eb_cur"
  /\ Len(loc[Producer].messages) = 3
  /\ loc[Producer].messages[1] # NullMsg
  /\ loc[Producer].messages[2] = NullMsg
  /\ loc[Producer].messages[3] # NullMsg
  /\ loc[Producer].enqueued_count = 1
  /\ loc[Producer].messages[3] \notin Stored(msg_queue_)
  /\ size < max_size_

Min(a, b) == IF a <= b THEN a ELSE b

\* k calls of dequeue() one after the other on heap array s: the messages
\* they return, in order, and the heap array they leave.
RECURSIVE DequeueTimes(_, _, _)
DequeueTimes(ms, s, k) ==
  IF k = 0 THEN [messages |-> <<>>, queue |-> s]
  ELSE LET rest == DequeueTimes(ms, Pop(ms, s), k - 1) IN
       [messages |-> <<Top(s)>> \o rest.messages, queue |-> rest.queue]

\* A step in which thread t's call of dequeue_batch takes effect.
DequeueBatchDecided(t) ==
  /\ pc[t] = "idle"
  /\ \/ pc'[t] = "dqb_cur"
     \/ pc'[t] = "done" /\ ret'[t].op = "dequeue_batch"

\* What that call has taken.
BatchTaken(t) == IF pc'[t] = "dqb_cur" THEN loc'[t].result ELSE <<>>

\* C11: dequeue_batch(max_count) does in one step what min(max_count,
\* size()) calls of dequeue() in a row do: it takes that many messages, in
\* rank order, each ranking before every message left, leaves the queue
\* those calls would leave, adds the count to total_dequeued and takes it
\* from current_size, and returns the messages; on an empty queue it
\* returns none.
C11_BatchIsRepeatedDequeue ==
  [][\A t \in AllThreads :
       /\ \A max_count \in 0..MaxCount :
            (DequeueBatchDecided(t) /\ DequeueBatchLock(t, max_count))
            => LET k == Min(max_count, size)
                   res == BatchTaken(t)
                   seq == DequeueTimes(msgs, msg_queue_, k) IN
               /\ Len(res) = k
               /\ res = seq.messages
               /\ msg_queue_' = seq.queue
               /\ \A i, j \in 1..k : i < j => RanksBefore(msgs[res[i]], msgs[res[j]])
               /\ \A i \in 1..k : \A x \in Stored(msg_queue_') :
                    RanksBefore(msgs[res[i]], msgs[x])
               /\ Stored(msg_queue_') = Stored(msg_queue_) \ Range(res)
               /\ size' = size - k
               /\ stats_'.total_dequeued = stats_.total_dequeued + k
               /\ empty => (pc'[t] = "done" /\ ret'[t].n = 0 /\ ret'[t].msgs = <<>>)
       /\ (pc[t] = "dqb_cur" /\ pc'[t] = "done")
          => /\ stats_'.current_size = stats_.current_size - Len(loc[t].result)
             /\ ret'[t].n = Len(loc[t].result)
             /\ ret'[t].msgs = loc[t].result]_vars

\* C11's case: dequeue_batch(2) on a queue of three messages has taken
\* the two that rank first, of different priorities, and left the third.
C11_Witness ==
  /\ pc[Consumer] = "dqb_cur"
  /\ Len(loc[Consumer].result) = 2
  /\ size = 1
  /\ msgs[loc[Consumer].result[1]].priority > msgs[loc[Consumer].result[2]].priority
  /\ stats_.total_dequeued = 2

\* A step in which worker w calls the dispatcher of the next subscriber.
CallBegins(w) ==
  /\ rpc[w] = "w_deliver"
  /\ rloc[w].subs # <<>>
  /\ (rpc'[w] # rpc[w] \/ rloc'[w] # rloc[w])

\* A step in which the user callback worker w entered ends.
CallbackEnds(w) == rpc[w] = "w_callback" /\ rpc'[w] # "w_callback"

\* The subscription of the dispatcher worker w is calling, as it was
\* made, and whether the message at hand carries the type it was made for.
Called(w) == subscribed[Head(rloc[w].subs).first]
SameType(w) == msgs[rloc[w].message].content.type = Called(w).T

\* C12: a dispatcher made for type T, called with a message carrying a T,
\* invokes the user callback exactly once, and returns true when the
\* callback returns (false when it raises); called with a message of
\* another type it does not invoke the callback and returns false.
C12_TypeSafeDispatch ==
  [][\A w \in Workers :
       /\ (CallBegins(w) /\ SameType(w))
          => /\ invoked' = Append(invoked, [sub |-> Head(rloc[w].subs).first,
                                            msg |-> rloc[w].message,
                                            topic |-> rloc[w].topic])
             /\ rpc'[w] = "w_callback"
       /\ (CallBegins(w) /\ ~SameType(w))
          => /\ invoked' = invoked
             /\ rpc'[w] = "w_deliver"
             /\ rloc'[w].call_result = FALSE
       /\ CallbackEnds(w)
          => /\ SameType(w)
             /\ invoked' = invoked
             /\ rloc'[w].call_result = ~Called(w).raises]_vars

\* C12's case: a message was delivered to two callbacks that return, the
\* first made for its type and invoked, the second made for the other
\* type, not invoked, its dispatcher returning false.
C12_Witness ==
  /\ rpc["worker"] = "w_deliver"
  /\ rloc["worker"].subs = <<>>
  /\ rloc["worker"].call_result = FALSE
  /\ Len(subscribed) = 2
  /\ subscribed[1].T # subscribed[2].T
  /\ ~subscribed[1].raises
  /\ ~subscribed[2].raises
  /\ Len(invoked) = 1
  /\ invoked[1].sub = 1
  /\ msgs[invoked[1].msg].content.type = subscribed[1].T

\* The invocations of subscription id with message m.
Invocations(id, m) ==
  {i \in 1..Len(invoked) : invoked[i].sub = id /\ invoked[i].msg = m}

\* C13: when a callback raises, the dispatcher returns false and the
\* worker stays in its delivery loop with the same message and the
\* subscribers that remain; when the loop is through, every subscriber of
\* the topic made for the message's type has been invoked with it, raising
\* or not, and the message is counted as processed, in the worker's count
\* and then in messages_processed.
C13_FailureContained ==
  [][\A w \in Workers :
       /\ (CallbackEnds(w) /\ Called(w).raises)
          => /\ rloc'[w].call_result = FALSE
             /\ rpc'[w] = "w_deliver"
             /\ rloc'[w].subs = Tail(rloc[w].subs)
             /\ rloc'[w].message = rloc[w].message
             /\ rloc'[w].processed_count = rloc[w].processed_count
       /\ (rpc[w] = "w_deliver" /\ rpc'[w] = "w_process")
          => /\ \A i \in 1..Len(Get(subscribers_, rloc[w].topic, <<>>)) :
                  LET id == subscribers_[rloc[w].topic][i].first IN
                  subscribed[id].T = msgs[rloc[w].message].content.type
                  => Cardinality(Invocations(id, rloc[w].message)) = 1
             /\ rloc'[w].processed_count = rloc[w].processed_count + 1
       /\ (rpc[w] = "w_stats" /\ rpc'[w] # "w_stats")
          => topic_stats_'[rloc[w].topic].messages_processed
               = Get(topic_stats_, rloc[w].topic, TopicStatistics).messages_processed
                 + rloc[w].processed_count]_vars

\* C13's case: the first subscriber's callback raised on a message, the
\* second subscriber was still invoked with that message, and the first
\* was invoked again with a later message.
C13_Witness ==
  /\ Len(subscribed) = 2
  /\ subscribed[1].raises
  /\ Len(invoked) >= 3
  /\ invoked[1].sub = 1
  /\ invoked[2].sub = 2
  /\ invoked[2].msg = invoked[1].msg
  /\ invoked[3].sub = 1
  /\ invoked[3].msg # invoked[1].msg

\* C14: with the callbacks subscribed before the publish, a message that
\* publish accepted is in the end delivered to each of them, and at no
\* time has a callback been invoked with it twice, with one worker thread
\* or with two.
C14_FanOut ==
  /\ [](\A m \in 1..MaxPublish, id \in 1..MaxSubs :
          Cardinality(Invocations(id, m)) <= 1)
  /\ \A m \in 1..MaxPublish, id \in 1..MaxSubs :
       (m \in published /\ id <= Len(subscribed))
         ~> (Cardinality(Invocations(id, m)) = 1)

\* C14's case: on a router with two worker threads, two subscribers have
\* each been invoked with an accepted message.
C14_Witness ==
  /\ config_.worker_thread_count = 2
  /\ Len(subscribed) = 2
  /\ 1 \in published
  /\ Cardinality(Invocations(1, 1)) = 1
  /\ Cardinality(Invocations(2, 1)) = 1

\* C15: every invocation of a callback is with a message published to the
\* topic the callback was subscribed to.
C15_TopicIsolation ==
  \A i \in 1..Len(invoked) :
    /\ subscribed[invoked[i].sub].topic = sent[invoked[i].msg]
    /\ invoked[i].topic = sent[invoked[i].msg]

\* C15's case: both topics have a subscriber, a message was published to
\* each, and each subscriber was invoked with the message of its topic.
C15_Witness ==
  /\ Len(subscribed) = 2
  /\ subscribed[1].topic # subscribed[2].topic
  /\ Len(sent) = 2
  /\ sent[1] # sent[2]
  /\ Len(invoked) = 2
  /\ invoked[1].sub # invoked[2].sub

\* C16: with the callbacks subscribed beforehand and several publishers
\* publishing to one topic concurrently, every message that publish
\* accepted is in the end delivered exactly once to each callback.
C16_AcceptedIsDelivered ==
  \A m \in 1..MaxPublish, id \in 1..MaxSubs :
    (m \in published /\ id <= Len(subscribed))
      ~> (Cardinality(Invocations(id, m)) = 1)

\* What publishing can change in the router: the messages enqueued, the
\* topic queues, the topic statistics.
routed == <<queues, topic_queues_, topic_stats_, published>>

\* C17: a publish or publishBatch call that finds the router not running,
\* at its entry or at the entry of publishMessage or publishMessageBatch,
\* returns false, respectively 0, at that step and leaves the queues, the
\* map of topic queues and the topic statistics as they are; called on a
\* router that is not running, it constructs no message either.
C17_NotRunningRejects ==
  [][\A t \in Publishers :
       /\ (~running_ /\ \E topic \in Topics, T \in Types :
                          PublishCheck(t, topic, T, 0))
          => /\ rret'[t] = Return("publish", FALSE, 0, <<>>)
             /\ rpc'[t] = "idle"
             /\ UNCHANGED <<routed, msgs, global_msg_id_counter>>
       /\ (~running_ /\ \E topic \in Topics, T \in Types, n \in 0..MaxPublish :
                          PublishBatchCheck(t, topic, T, n, 0))
          => /\ rret'[t] = Return("publishBatch", FALSE, 0, <<>>)
             /\ rpc'[t] = "idle"
             /\ UNCHANGED <<routed, msgs, global_msg_id_counter>>
       /\ (~running_ /\ rpc[t] = "pm_running" /\ rpc'[t] # rpc[t])
          => /\ rret'[t] = Return("publish", FALSE, 0, <<>>)
             /\ rpc'[t] = "idle"
             /\ UNCHANGED routed
       /\ (~running_ /\ rpc[t] = "pb_running" /\ rpc'[t] # rpc[t])
          => /\ rret'[t] = Return("publishBatch", FALSE, 0, <<>>)
             /\ rpc'[t] = "idle"
             /\ UNCHANGED routed]_vars

\* C17's case: the router was started, used and stopped, and a publish
\* call on the stopped router has returned false, the accepted message
\* still in its queue.
C17_Witness ==
  /\ ~running_
  /\ worker_threads_ = {}
  /\ rpc[Client] = "idle"
  /\ rret[Client].op = "stop"
  /\ rpc["publisher"] = "idle"
  /\ rret["publisher"] = Return("publish", FALSE, 0, <<>>)
  /\ published # {}
  /\ \E q \in 1..Len(queues) : queues[q] # <<>>

\* The subscription id is registered under the topic: subscribe returned
\* it for that topic, and neither unsubscribe nor clear has removed it.
Registered(topic, id) ==
  /\ id <= Len(subscribed)
  /\ subscribed[id].topic = topic
  /\ id \notin unsubscribed

\* The ids in a topic's subscriber list, in the order of the list.
Ids(subscribers, topic) ==
  LET list == Get(subscribers, topic, <<>>) IN
  [i \in 1..Len(list) |-> list[i].first]

\* A sequence of ids without the id.
Without(ids, id) == SelectSeq(ids, LAMBDA x : x # id)

\* C18: unsubscribe(topic, id) returns true exactly when id is registered
\* under that topic, and then takes that one entry out of the topic's list
\* and leaves every other list as it is; otherwise (the id was removed
\* before, belongs to another topic, or was never returned) it returns
\* false and changes no subscriber list and no statistic.
C18_UnsubscribeExactlyOnce ==
  [][\A topic \in Topics, id \in 1..MaxSubs :
       Unsubscribe(Client, topic, id)
       => /\ rret'[Client] = Return("unsubscribe", Registered(topic, id), id, <<>>)
          /\ Registered(topic, id)
             => /\ Ids(subscribers_', topic) = Without(Ids(subscribers_, topic), id)
                /\ Len(Ids(subscribers_', topic)) = Len(Ids(subscribers_, topic)) - 1
                /\ \A other \in Topics \ {topic} :
                     Ids(subscribers_', other) = Ids(subscribers_, other)
                /\ ~Registered(topic, id)'
          /\ ~Registered(topic, id)
             => UNCHANGED <<subscribers_, topic_stats_>>]_vars

\* C18's case: of two subscriptions of one topic the first was removed by
\* an unsubscribe that returned true, the second is still in the list, and
\* a second unsubscribe with the first id has returned false.
C18_Witness ==
  /\ Len(subscribed) = 2
  /\ subscribed[1].topic = subscribed[2].topic
  /\ unsubscribed = {1}
  /\ Ids(subscribers_, subscribed[1].topic) = <<2>>
  /\ rret[Client] = Return("unsubscribe", FALSE, 1, <<>>)

\* C19: after unsubscribe (or clear) has removed a subscription, no
\* invocation of its callback is in progress and none begins, whatever is
\* still in the topic's queue; and a callback is only ever invoked with
\* messages that were still to be dequeued when its subscribe returned.
C19_NoInvocationAfterUnsubscribe ==
  /\ [](\A w \in Workers :
          rpc[w] = "w_callback" => Head(rloc[w].subs).first \notin unsubscribed)
  /\ [][\A i \in (Len(invoked) + 1)..Len(invoked') :
          invoked'[i].sub \notin unsubscribed]_vars
  /\ [](\A i \in 1..Len(invoked) :
          invoked[i].msg \notin subscribed[invoked[i].sub].dequeued)

\* C19's case: the first subscriber was invoked with the first message and
\* then unsubscribed; the second subscribed to the same topic after that
\* message was dequeued, and the second message was delivered to the second
\* subscriber only.
C19_Witness ==
  /\ Len(subscribed) = 2
  /\ subscribed[1].topic = subscribed[2].topic
  /\ unsubscribed = {1}
  /\ subscribed[2].dequeued = {1}
  /\ Cardinality(Invocations(1, 1)) = 1
  /\ Invocations(2, 1) = {}
  /\ Invocations(1, 2) = {}
  /\ Cardinality(Invocations(2, 2)) = 1

\* C20: the ids subscribe has returned, in the order of the calls, are
\* strictly increasing, whichever threads subscribed and whatever
\* unsubscribe and clear removed in between; each subscribe returns the id
\* under which it registered the callback.
C20_IdsStrictlyIncrease ==
  /\ [](\A i, j \in 1..Len(subscribed) :
          i < j => subscribed[i].id < subscribed[j].id)
  /\ [][Len(subscribed') > Len(subscribed)
        => LET new == subscribed'[Len(subscribed')] IN
           /\ \E t \in RouterThreads :
                rret'[t] = Return("subscribe", TRUE, new.id, <<>>)
           /\ \E i \in 1..Len(Ids(subscribers_', new.topic)) :
                Ids(subscribers_', new.topic)[i] = new.id
           /\ \A topic \in Topics :
                \A i \in 1..Len(Ids(subscribers_, topic)) :
                  Ids(subscribers_, topic)[i] < new.id]_vars

\* C20's case: after the first id was removed and the router cleared,
\* another thread subscribed and was given a greater id.
C20_Witness ==
  /\ Len(subscribed) = 2
  /\ 1 \in unsubscribed
  /\ rret[Client].op = "clear"
  /\ rret["publisher2"] = Return("subscribe", TRUE, 2, <<>>)
  /\ \E topic \in Topics : Ids(subscribers_, topic) = <<2>>
  /\ subscribed[2].id > subscribed[1].id

\* The worker threads that are alive: started and not yet returned from
\* workerLoop.
Live == {w \in Workers : rpc[w] \notin {"unborn", "exited"}}

\* isRunning().
IsRunning == running_

\* C21: start() on a running router returns true and leaves the workers
\* as they are; between the calls of start() and stop(), a running router
\* has worker_thread_count live workers and one that is not running has
\* none; start() on a router that is not running, stopped before or not,
\* makes it running.
C21_WorkerPoolMatchesState ==
  /\ [](rpc[Client] = "idle"
        => IF IsRunning
           THEN /\ Cardinality(Live) = config_.worker_thread_count
                /\ worker_threads_ = Live
           ELSE /\ Live = {}
                /\ worker_threads_ = {})
  /\ [][Start(Client)
        => /\ rret'[Client] = Return("start", TRUE, 0, <<>>)
           /\ IsRunning'
           /\ IsRunning => UNCHANGED <<worker_threads_, rpc, running_, should_stop_>>]_vars

\* C21's case: a router of two workers accepted a message, was stopped,
\* rejected a publish (the queue, of capacity 2, was not full) and was
\* started again: two workers are alive.
C21_Witness ==
  /\ config_.worker_thread_count = 2
  /\ config_.default_queue_size = 2
  /\ global_msg_id_counter = 1
  /\ published = {1}
  /\ rpc["publisher"] = "idle"
  /\ rret["publisher"] = Return("publish", FALSE, 0, <<>>)
  /\ rpc[Client] = "idle"
  /\ rret[Client].op = "start"
  /\ IsRunning
  /\ Cardinality(Live) = 2

\* A callback is executing.
Executing == \E w \in Workers : rpc[w] = "w_callback"

\* stop() has returned, or start() was never called, and start() has not
\* been called since.
Stopped == rpc[Client] = "idle" /\ ~IsRunning

\* C22: at the step at which stop() returns no worker thread is alive and
\* no callback is executing; from then until the next start() no callback
\* is invoked, whatever the queues hold.
C22_StopJoinsWorkers ==
  /\ [][StopJoin(Client) => (Live' = {} /\ ~Executing' /\ Stopped')]_vars
  /\ [][Stopped => (invoked' = invoked /\ ~Executing')]_vars

\* C22's case: stop() has returned while a message is still in the queue
\* of a topic that has a subscriber; the workers have exited.
C22_Witness ==
  /\ Stopped
  /\ rret[Client].op = "stop"
  /\ \A w \in WorkerPool(config_.worker_thread_count) : rpc[w] = "exited"
  /\ "A" \in DOMAIN topic_queues_
  /\ queues[topic_queues_["A"]] # <<>>
  /\ Get(subscribers_, "A", <<>>) # <<>>

\* C30: in every state in which isRunning() returns false, no worker
\* thread is alive and no callback is executing.
C30_StoppedOnlyAfterJoin == ~IsRunning => (Live = {} /\ ~Executing)

\* C23: with no clear(), once a publish to a topic has returned true, or
\* a subscribe to it has returned, getTopicNames() contains the topic.
C23_TopicsAreLazilyCreated ==
  (subscribers_mutex_ = NoThread /\ \A p \in Publishers : rpc[p] = "idle")
  => /\ \A m \in published : sent[m] \in GetTopicNames
     /\ \A i \in 1..Len(subscribed) : subscribed[i].topic \in GetTopicNames

\* The queue objects that are some topic's queue.
TopicQueues == {topic_queues_[topic] : topic \in DOMAIN topic_queues_}

\* C24: when clear() returns, getTopicNames() is empty, every topic has
\* no subscriber and all-zero statistics, and no queue is a topic's queue
\* any more; a queue that is no topic's queue never becomes one again and
\* no message is taken out of it, so what was queued is never delivered;
\* a callback removed by clear() is never invoked again, and unsubscribe
\* with its id returns false.
C24_ClearDropsEverything ==
  /\ [][RouterClear(Client)
        => /\ GetTopicNames' = {}
           /\ TopicQueues' = {}
           /\ \A topic \in Topics :
                /\ GetSubscriberCount(topic)' = 0
                /\ GetTopicStatistics(topic)' = TopicStatistics
           /\ \A id \in 1..Len(subscribed) : id \in unsubscribed']_vars
  /\ [][\A q \in 1..Len(queues) :
          q \notin TopicQueues
          => /\ q \notin TopicQueues'
             /\ Range(queues[q]) \subseteq Range(queues'[q])]_vars
  /\ [][\A i \in (Len(invoked) + 1)..Len(invoked') :
          /\ invoked'[i].sub \notin unsubscribed
          /\ \E w \in Workers : /\ rloc[w].queue \in TopicQueues
                                /\ rloc[w].message = invoked'[i].msg]_vars
  /\ [][\A topic \in Topics, id \in 1..MaxSubs :
          (id \in unsubscribed /\ Unsubscribe(Client, topic, id))
          => rret'[Client] = Return("unsubscribe", FALSE, id, <<>>)]_vars

\* C24's case: clear() was called while the first message was queued for
\* the first subscriber; the message is still in its queue, which is no
\* topic's queue, and was delivered to no one, and a callback subscribed
\* after clear() has received the next message.
C24_Witness ==
  /\ Len(subscribed) = 2
  /\ unsubscribed = {1}
  /\ subscribed[1].topic = "A"
  /\ subscribed[2].topic = "A"
  /\ Len(queues) = 2
  /\ Range(queues[1]) = {1}
  /\ TopicQueues = {2}
  /\ \A i \in 1..Len(invoked) : invoked[i].msg # 1
  /\ Cardinality(Invocations(2, 2)) = 1

\* C25: with no clear() and no resetStatistics(), every copy getStatistics
\* returns has total_enqueued - total_dequeued = current_size and
\* peak_size >= current_size.
C25_SnapshotIsConsistent ==
  \A t \in AllThreads :
    ret[t].op = "getStatistics"
    => /\ ret[t].stats.total_enqueued - ret[t].stats.total_dequeued
            = ret[t].stats.current_size
       /\ ret[t].stats.peak_size >= ret[t].stats.current_size

\* A step in which thread t's call of dequeue takes effect or finds the
\* queue empty.
DequeueDecided(t) ==
  /\ pc[t] = "idle"
  /\ \/ pc'[t] = "dq_cur"
     \/ pc'[t] = "done" /\ ret'[t].op = "dequeue"

\* C26: clear() leaves the queue empty and current_size 0 and changes no
\* other counter and not the capacity; with clear() among the calls,
\* current_size is size() whenever no call holds the queue, an enqueue is
\* refused exactly by a queue holding max_size_ messages, and a dequeue
\* returns nullptr exactly on an empty queue and otherwise removes a stored
\* message that no stored message ranks before.
C26_ClearLeavesFreshQueue ==
  /\ [][\A t \in AllThreads :
          Clear(t)
          => /\ msg_queue_' = <<>>
             /\ empty'
             /\ stats_' = [stats_ EXCEPT !.current_size = 0]
             /\ max_size_' = max_size_
             /\ mtx_' = NoThread]_vars
  /\ [](mtx_ = NoThread => stats_.current_size = size)
  /\ [][\A t \in AllThreads :
          /\ (EnqueueDecided(t) /\ ret'[t].msgs # <<NullMsg>>)
             => (EnqueueRejected(t) <=> size = max_size_)
          /\ DequeueDecided(t)
             => IF empty
                THEN pc'[t] = "done" /\ ~ret'[t].ok
                ELSE /\ Len(removed') = Len(removed) + 1
                     /\ LET m == removed'[Len(removed')].msg IN
                        /\ m \in Stored(msg_queue_)
                        /\ Stored(msg_queue_') = Stored(msg_queue_) \ {m}
                        /\ \A o \in Stored(msg_queue_') :
                             ~RanksBefore(msgs[o], msgs[m])]_vars

\* C26's case: a queue of capacity 2 was filled and cleared; the third
\* message was then accepted and handed out; the counters kept their
\* history.
C26_Witness ==
  /\ cleared
  /\ max_size_ = 2
  /\ Quiescent
  /\ Len(accepted) = 3
  /\ Len(removed) = 1
  /\ removed[1].msg = accepted[3].msg
  /\ empty
  /\ stats_ = [Statistics EXCEPT !.total_enqueued = 3, !.total_dequeued = 1,
                                 !.peak_size = 2]

InGetOrCreateQueue(t) == rpc[t] \in {"pm_create", "pb_create"}

\* C29: topic_queues_ is accessed under subscribers_mutex_ only: while a
\* publisher is inside getOrCreateQueue no worker holds the mutex for its
\* scan of topic_queues_ and no other publisher is inside
\* getOrCreateQueue.
C29_TopicQueuesUnderLock ==
  \A p \in Publishers :
    InGetOrCreateQueue(p)
    => /\ subscribers_mutex_ \notin Workers
       /\ \A q \in Publishers \ {p} : ~InGetOrCreateQueue(q)

\* The messages a queue of the topic has accepted since the last clear().
AcceptedSinceClear(topic) == {m \in published \ dropped : sent[m] = topic}

\* C28: with statistics enabled, whenever no call of the router is in
\* progress, every topic's active_subscribers is its subscriber count and
\* its messages_published is the number of messages accepted for it since
\* the last clear().
C28_TopicStatisticsReflectHistory ==
  (config_.enable_statistics /\ \A t \in Publishers \cup {Client} : rpc[t] = "idle")
  => \A topic \in Topics :
       /\ GetTopicStatistics(topic).active_subscribers = GetSubscriberCount(topic)
       /\ GetTopicStatistics(topic).messages_published
            = Cardinality(AcceptedSinceClear(topic))

\* C31: a dequeue_block call that ends by timeout records its wait,
\* wait_count growing by one and total_wait_time_us by the time waited,
\* and changes neither the stored messages nor any other counter.
C31_TimeoutRecordsWait ==
  [][\A t \in AllThreads :
       DequeueBlockNull(t)
       => /\ msg_queue_' = msg_queue_
          /\ \E wait_time \in 0..MaxWait :
               stats_' = [stats_ EXCEPT !.wait_count = @ + 1,
                                        !.total_wait_time_us = @ + wait_time]]_vars

\* C32: the messages one enqueue_batch call accepts all get the time of
\* the call as their timestamp; a message handed out ranks, among the
\* messages of its priority that stay stored or are handed out after it
\* by the same call, first by timestamp and then by id: so the messages
\* of one batch leave in ascending id, wherever they stood in the vector,
\* and after every message of their priority with a smaller timestamp.
C32_BatchSharesTimestamp ==
  [][/\ \A t \in AllThreads :
          EnqueueBatchDecided(t)
          => \A i \in (Len(accepted) + 1)..Len(accepted') :
               msgs'[accepted'[i].msg].timestamp = clock
     /\ \A i \in (Len(removed) + 1)..Len(removed') :
          LET m == removed'[i].msg
              later == Stored(msg_queue_')
                         \cup {removed'[j].msg : j \in (i + 1)..Len(removed')} IN
          \A o \in later :
            msgs[o].priority = msgs[m].priority
            => \/ msgs[m].timestamp < msgs[o].timestamp
               \/ /\ msgs[m].timestamp = msgs[o].timestamp
                  /\ msgs[m].msg_id_ < msgs[o].msg_id_]_vars

\* C32's case: message 3 was enqueued alone, by an enqueue_batch call of
\* its own; a later enqueue_batch call accepted the vector <<2, 1>>; all
\* three have one priority; they left in the order 3, 1, 2.
C32_Witness ==
  /\ Len(accepted) = 3
  /\ accepted[1].how = "enqueue_batch" /\ accepted[1].msg = 3
  /\ accepted[2].how = "enqueue_batch" /\ accepted[2].msg = 2
  /\ accepted[3].how = "enqueue_batch" /\ accepted[3].msg = 1
  /\ msgs[1].priority = msgs[2].priority /\ msgs[2].priority = msgs[3].priority
  /\ msgs[3].timestamp < msgs[1].timestamp
  /\ msgs[1].timestamp = msgs[2].timestamp
  /\ Len(removed) = 3
  /\ removed[1].msg = 3 /\ removed[2].msg = 1 /\ removed[3].msg = 2

\* A step of worker w: its position or its locals change.
WorkerSteps(w) == rpc'[w] # rpc[w] \/ rloc'[w] # rloc[w]

\* A step in which worker w takes a message from a topic queue.
WorkerTakes(w) == rpc[w] = "w_process" /\ rpc'[w] = "w_deliver"

\* C33: a worker never counts more than max_batch messages in one call of
\* processTopicQueue and takes a message only below that count; within one
\* scan, from taking the mutex to releasing it, it comes to every topic
\* once: it processes a topic whose queue it finds non-empty, counting
\* from 0, and leaves only when no topic is left; it sleeps after the
\* scan only when it found no queue non-empty.
C33_WorkerBatchCap ==
  /\ [](\A w \in Workers : rloc[w].processed_count <= max_batch)
  /\ [][\A w \in Workers :
          /\ WorkerTakes(w)
             => /\ rloc[w].processed_count < max_batch
                /\ Len(queues'[rloc[w].queue]) = Len(queues[rloc[w].queue]) - 1
          /\ (WorkerSteps(w) /\ rpc[w] = "w_scan" /\ rpc'[w] # "w_loop")
             => \E topic \in rloc[w].todo :
                  /\ rloc'[w].todo = rloc[w].todo \ {topic}
                  /\ IF topic \in DOMAIN topic_queues_
                        /\ queues[topic_queues_[topic]] # <<>>
                     THEN /\ rpc'[w] = "w_process"
                          /\ rloc'[w].topic = topic
                          /\ rloc'[w].processed_count = 0
                          /\ rloc'[w].processed_any
                     ELSE /\ rpc'[w] = "w_scan"
                          /\ rloc'[w].processed_any = rloc[w].processed_any
          /\ (WorkerSteps(w) /\ rpc[w] \in {"w_process", "w_deliver", "w_callback", "w_stats"})
             => /\ rloc'[w].todo = rloc[w].todo
                /\ rloc'[w].processed_any
          /\ (rpc[w] = "w_scan" /\ rpc'[w] = "w_loop")
             => rloc[w].todo = {}
          /\ (rpc[w] = "w_lock" /\ rpc'[w] = "w_scan")
             => (rloc'[w].todo = Topics /\ ~rloc'[w].processed_any)]_vars

\* C33's case: a Backlog was waiting in the queue of topic A when the
\* worker came to it; the worker has delivered max_batch messages and is
\* back in its scan, the last message still waiting.
C33_Witness ==
  /\ rpc["worker"] = "w_scan"
  /\ rloc["worker"].topic = "A"
  /\ rloc["worker"].processed_count = max_batch
  /\ Len(invoked) = max_batch
  /\ "A" \in DOMAIN topic_queues_
  /\ Len(queues[topic_queues_["A"]]) = 1

\* Worker w is inside a delivery scan: it holds subscribers_mutex_.
InScan(w) == rpc[w] \in {"w_scan", "w_process", "w_deliver", "w_callback", "w_stats"}

\* The places of the invocations of subscription id, in order.
Seen(id) == {i \in 1..Len(invoked) : invoked[i].sub = id}

C35_StopReturns ==
  /\ (rpc[Client] \in {"stop_running", "stop_join"}) ~> (rpc[Client] = "idle")
  /\ [][StopJoin(Client) => Live' = {}]_vars

\* ------------------------------------------- calls made by a callback

\* The user callback, running on the worker thread inside
\* processTopicQueue, calls unsubscribe(topic, id) for its own
\* subscription (as the destructor of its SubscriptionHandle does): the
\* call reaches the lock_guard on subscribers_mutex_.
CallbackEnter(w) ==
  /\ rpc[w] = "w_callback"
  /\ rpc' = [rpc EXCEPT ![w] = "cb_lock"]
  /\ UNCHANGED <<standalone, max_size_, clock, global_msg_id_counter, msgs,
                 config_, running_, should_stop_, next_subscription_id_,
                 subscribers_, topic_queues_, subscribers_mutex_, topic_stats_,
                 worker_threads_, queues, rloc, rret, sent, published,
                 subscribed, unsubscribed, dropped, invoked>>

\* std::mutex::lock in the nested unsubscribe. A free mutex is taken, the
\* entry erased and the mutex released. When the calling thread owns the
\* mutex already (workerLoop holds it over the whole scan) the behaviour is
\* undefined: the thread blocks on itself for ever, or lock raises
\* std::system_error, which the catch of processTopicQueue takes.
CallbackLock(w) ==
  /\ rpc[w] = "cb_lock"
  /\ IF subscribers_mutex_ = w
     THEN \E outcome \in {"blocks", "raises"} :
            /\ IF outcome = "blocks"
               THEN /\ rpc' = [rpc EXCEPT ![w] = "cb_blocked"]
                    /\ UNCHANGED rloc
               ELSE /\ rpc' = [rpc EXCEPT ![w] = "w_deliver"]
                    /\ rloc' = [rloc EXCEPT ![w].call_result = FALSE,
                                            ![w].subs = Tail(@)]
            /\ UNCHANGED <<subscribers_, topic_stats_, unsubscribed>>
     ELSE /\ subscribers_mutex_ = NoThread
          /\ LET topic == rloc[w].topic
                 subscription_id == Head(rloc[w].subs).first
                 sub_it == IF topic \in DOMAIN subscribers_
                           THEN FindIf(subscribers_[topic], subscription_id)
                           ELSE 0 IN
             IF sub_it # 0
             THEN /\ config_.enable_statistics => stats_mutex_ = NoThread
                  /\ subscribers_' = [subscribers_ EXCEPT ![topic] = Erase(@, sub_it)]
                  /\ topic_stats_' =
                       IF config_.enable_statistics /\ topic \in DOMAIN topic_stats_
                       THEN [topic_stats_ EXCEPT ![topic].active_subscribers = @ - 1]
                       ELSE topic_stats_
                  /\ unsubscribed' = unsubscribed \cup {subscription_id}
             ELSE UNCHANGED <<subscribers_, topic_stats_, unsubscribed>>
          /\ rpc' = [rpc EXCEPT ![w] = "w_callback"]
          /\ UNCHANGED rloc
  /\ UNCHANGED <<standalone, max_size_, clock, global_msg_id_counter, msgs,
                 config_, running_, should_stop_, next_subscription_id_,
                 topic_queues_, subscribers_mutex_, worker_threads_, queues,
                 rret, sent, published, subscribed, dropped, invoked>>

\* One subscriber whose callback unsubscribes itself, one publisher, one
\* worker.
NextCallback ==
  \/ Start(Client)
  \/ next_subscription_id_ = 1 /\ Subscribe(Client, "A", "int", FALSE)
  \/ \E priority \in Priorities : PublishCheck("publisher", "A", "int", priority)
  \/ PublishRun("publisher")
  \/ Worker("worker")
  \/ CallbackEnter("worker")
  \/ CallbackLock("worker")

SpecCallback ==
  /\ InitOneWorker
  /\ [][NextCallback]_vars
  /\ WF_vars(Worker("worker") \/ CallbackLock("worker"))

\* C36: a router call made from inside a subscriber callback completes:
\* the worker that has entered unsubscribe from a callback gets back into
\* the callback, it never stays blocked on the subscriber lock it holds.
C36_CallbackCallsComplete ==
  (rpc["worker"] = "cb_lock") ~> (rpc["worker"] = "w_callback")

\* ------------------------------------------------------ the lock order

\* The router's locks a thread holds between two of its steps. A queue's
\* own mutex is taken and released inside one call of the queue, which is
\* one step, so that none is held here.
Holds(t) ==
  (IF subscribers_mutex_ = t THEN {"subscribers_mutex_"} ELSE {}) \cup
  (IF stats_mutex_ = t THEN {"stats_mutex_"} ELSE {})

\* The lock the next step of a thread has to take, "none" when it takes
\* none.
Wants(t) ==
  CASE rpc[t] = "w_lock" -> "subscribers_mutex_"
    [] rpc[t] \in {"w_stats", "pm_stats"} -> "stats_mutex_"
    [] OTHER -> "none"

Owner(lock) ==
  IF lock = "subscribers_mutex_" THEN subscribers_mutex_ ELSE stats_mutex_

\* A thread waits: the lock its next step takes has an owner.
Waits(t) == Wants(t) # "none" /\ Owner(Wants(t)) # NoThread

\* A thread is inside workerLoop or inside publish.
InCall(t) ==
  rpc[t] \in {"w_loop", "w_lock", "w_scan", "w_process", "w_deliver",
              "w_callback", "w_stats", "pm_running", "pm_create",
              "pm_enqueue", "pm_stats", "pm_insert"}

ThreadStep(t) == IF t \in Workers THEN Worker(t) ELSE PublishRun(t)

C38_ProcessedAtMostPublished ==
  \A topic \in DOMAIN topic_stats_ :
    topic_stats_[topic].messages_processed <= topic_stats_[topic].messages_published

\* ------------------------------------------- enqueueing a stored handle

\* enqueue(msg) with a handle whose message is still stored in the queue:
\* as for any message, a queue that is not full stamps it with the clock,
\* which rewrites the key of the element inside the heap, and pushes the
\* handle once more.
EnqueueStored(t, m) ==
  /\ pc[t] = "idle"
  /\ mtx_ = NoThread
  /\ m \in Stored(msg_queue_)
  /\ msgs' = Stamp(msgs, msg_queue_, m, clock)
  /\ IF Full(msg_queue_)
     THEN /\ pc' = [pc EXCEPT ![t] = "done"]
          /\ ret' = [ret EXCEPT ![t] = Return("enqueue", FALSE, 0, <<m>>)]
          /\ UNCHANGED <<msg_queue_, mtx_, stats_, loc, accepted>>
     ELSE /\ msg_queue_' = Push(msgs', msg_queue_, m)
          /\ stats_' = [stats_ EXCEPT !.total_enqueued = @ + 1]
          /\ mtx_' = t
          /\ pc' = [pc EXCEPT ![t] = "enq_cur"]
          /\ loc' = [loc EXCEPT ![t] = [NoLocals EXCEPT !.msg = m]]
          /\ accepted' = Append(accepted, Entry(msgs, m, "enqueue"))
          /\ UNCHANGED ret
  /\ UNCHANGED <<router, global_msg_id_counter, max_size_, clock, removed, cleared,
                 reset_done, peak_hist>>

\* A producer enqueues new messages and, among its first MaxMsgs calls,
\* handles it has enqueued before, while a consumer dequeues.
NextReenqueue ==
  \/ Tick
  \/ Enqueue(Producer)
  \/ /\ Len(accepted) < MaxMsgs
     /\ \E m \in Stored(msg_queue_) : EnqueueStored(Producer, m)
  \/ Dequeue(Consumer)
  \/ \E t \in {Producer, Consumer} : Resume(t)

SpecReenqueue == Init /\ [][NextReenqueue]_vars

\* C39: every message a dequeue hands out was stored, and no other stored
\* message ranked before it, also after handles of stored messages have
\* been enqueued again.
C39_OrderedUnderRestamping ==
  [][\A i \in (Len(removed) + 1)..Len(removed') :
       /\ removed'[i].msg \in Stored(msg_queue_)
       /\ \A m \in Stored(msg_queue_) \ {removed'[i].msg} :
            ~RanksBefore(msgs[m], msgs[removed'[i].msg])]_vars

\* ------------------------------------------------- stop and restart

\* A client starts the router, subscribes a callback, stops the router and
\* starts it again, each call after the one before has returned, while a
\* publisher publishes with any priority and one worker delivers.
\* Scheduling is fair to the worker and to the publisher inside a call.
NextRestart ==
  \/ rret[Client].op \in {"none", "stop"} /\ Start(Client)
  \/ rret[Client].op = "start" /\ next_subscription_id_ = 1
       /\ Subscribe(Client, "A", "int", FALSE)
  \/ rret[Client].op = "subscribe" /\ Stop(Client)
  \/ \E priority \in Priorities : PublishCheck("publisher", "A", "int", priority)
  \/ PublishRun("publisher")
  \/ Worker("worker")

SpecRestart ==
  /\ InitOneWorker
  /\ [][NextRestart]_vars
  /\ WF_vars(Worker("worker"))
  /\ WF_vars(PublishRun("publisher"))

\* The router has been stopped and started again.
Restarted ==
  /\ running_
  /\ rret[Client].op = "start"
  /\ next_subscription_id_ > 1

\* Message m waits in the queue of topic A.
Queued(m) ==
  /\ "A" \in DOMAIN topic_queues_
  /\ m \in Range(queues[topic_queues_["A"]])

\* C40: the steps of stop() leave the topic queues and the subscriptions
\* as they are; a message that waits in its queue once the router has been
\* started again is eventually delivered to the subscriber, no message is
\* delivered to it twice, and a worker takes from a queue the message that
\* ranks first in it.
C40_RestartLosesNothing ==
  /\ [][Stop(Client) =>
          UNCHANGED <<queues, topic_queues_, subscribers_, published>>]_vars
  /\ \A m \in 1..MaxPublish :
       (Restarted /\ Queued(m)) ~> (Cardinality(Invocations(1, m)) = 1)
  /\ [](\A m \in 1..MaxPublish : Cardinality(Invocations(1, m)) <= 1)
  /\ [][\A w \in Workers :
          WorkerTakes(w) =>
            /\ rloc'[w].message \in Range(queues[rloc[w].queue])
            /\ \A m \in Range(queues[rloc[w].queue]) \ {rloc'[w].message} :
                 ~RanksBefore(msgs[m], msgs[rloc'[w].message])]_vars

\* C40 witness: the router is stopped, no worker is alive, the
\* subscription is registered and two messages wait in the queue of the
\* topic.
C40_Witness ==
  /\ Stopped
  /\ rret[Client].op = "stop"
  /\ Live = {}
  /\ Len(Get(subscribers_, "A", <<>>)) = 1
  /\ Queued(1) /\ Queued(2)

====
